---- MODULE Spec2Model ----
(***************************************************************************)
(* A state-machine model of the Writing API (jrlanders/writer-api).        *)
(*                                                                         *)
(* Part A  the in-memory server ("Old server files/server.js", v2.3.0;     *)
(*         the project and delete/restore routes are the same text in      *)
(*         server.2.0.0.js and server.2.1.0.js).                           *)
(* Part B  the Postgres server (server.mjs, v2.6.3-pg): its own SQL, the   *)
(*         paths taken when the db handle offers only _pool.                *)
(* Part C  the tag filters of both servers on drawn documents.             *)
(* Part D  db.pg.mjs, id-suffix variant: split on write, merge on read.    *)
(* Part E  the read-stream timer of both servers.                          *)
(*                                                                         *)
(* Conventions.  JavaScript strings that the code takes apart (names,      *)
(* slugs, bodies, ids, tag lists) are sequences of one-character strings;  *)
(* strings that are only compared (doc_type, kind, operation names) are    *)
(* TLA+ strings.  A missing / undefined / null value is the empty          *)
(* sequence, the empty string or the id 0, all of which are falsy in the   *)
(* code's tests (!name, if (id), ...).  Timestamps produced by new Date()  *)
(* are never compared by any handler: created_at and updated_at are left   *)
(* out and deleted_at is kept as the truth value the code tests.           *)
(***************************************************************************)
EXTENDS Integers, Sequences, FiniteSets, TLC

VARIABLES
  projects,            \* db.projects (Part A), table projects (Part B): id -> project
  docs,                \* db.docs (Part A), table docs (Part B): id -> doc
  trashP,              \* db.trash.projects : project id -> snapshot
  trashD,              \* db.trash.docs     : doc id -> snapshot
  DEFAULT_PROJECT_ID,  \* 0 is null
  ALLOW_AUTOCONFIRM,   \* process.env.ALLOW_AUTOCONFIRM === '1', fixed at start
  nextPid,             \* nanoid(): the next fresh project id
  nextDid,             \* nanoid(): the next fresh document id
  preDelete,           \* history: trashed doc id -> the document just before softDeleteDoc last ran on it
  resp,                \* the last request and the one response it got
  dbReady,             \* app.locals.db is set (Part B)
  misc,                \* table writing.misc (Part D): row id -> row
  clock,               \* now() of the database (Part D)
  job,                 \* the calls in progress: createDoc (Parts D, H), POST /projects (Part I)
  written,             \* history: the <<id, body>> of each finished createDoc (Part D)
  stream,              \* the open read-stream response and its timer (Part E)
  old                  \* server.old.js: API_TOKEN, session default project, tables (Part F)

vars == <<projects, docs, trashP, trashD, DEFAULT_PROJECT_ID, ALLOW_AUTOCONFIRM,
          nextPid, nextDid, preDelete, resp, dbReady, misc, clock, job, written, stream, old>>

pgVars == <<misc, clock, job, written>>

memVars == <<projects, docs, trashP, trashD, DEFAULT_PROJECT_ID, ALLOW_AUTOCONFIRM,
             nextPid, nextDid, preDelete>>

----------------------------------------------------------------------------
(* Bounds *)

MaxProjects == 2
MaxDocs == 1
MaxBodyLen == 3

PIDs == 1..MaxProjects
DIDs == 1..MaxDocs

----------------------------------------------------------------------------
(* Generic helpers *)

Min(S) == CHOOSE x \in S : \A y \in S : x <= y

Restrict(f, S) == [x \in S |-> f[x]]

Put(f, k, v) == (k :> v) @@ f

Remove(f, k) == Restrict(f, DOMAIN f \ {k})

----------------------------------------------------------------------------
(* String helpers (sequences of characters) *)

toLowerChar(c) ==
  CASE c = "A" -> "a"
    [] c = "B" -> "b"
    [] c = "L" -> "l"
    [] c = "N" -> "n"
    [] c = "T" -> "t"
    [] c = "Y" -> "y"
    [] OTHER -> c

toLowerCase(s) == [i \in DOMAIN s |-> toLowerChar(s[i])]

isSpace(c) == c = " "

RECURSIVE trimStart(_)
trimStart(s) == IF s # <<>> /\ isSpace(Head(s)) THEN trimStart(Tail(s)) ELSE s

RECURSIVE trimEnd(_)
trimEnd(s) ==
  IF s # <<>> /\ isSpace(s[Len(s)]) THEN trimEnd(SubSeq(s, 1, Len(s) - 1)) ELSE s

trim(s) == trimEnd(trimStart(s))

\* s.replace(/\s+/g, '-')
RECURSIVE replaceSpaces(_)
replaceSpaces(s) ==
  IF s = <<>> THEN <<>>
  ELSE IF isSpace(Head(s)) THEN <<"-">> \o replaceSpaces(trimStart(s))
  ELSE <<Head(s)>> \o replaceSpaces(Tail(s))

makeSlug(s) == replaceSpaces(trim(toLowerCase(s)))

----------------------------------------------------------------------------
(* Part A: input sets of the in-memory server *)

NameSet == {<<"A", " ">>, <<"a">>}
NoName == <<>>
SlugSet == {makeSlug(n) : n \in NameSet}
UNDEF == -1      \* typeof x === 'undefined' for an optional body field

\* how a request names its project: body.project_id, body.project_name (or
\* query.project_name), header x-project-id; all absent means the default project

Reply(op, status, pid, did) ==
  [op |-> op, status |-> status, pid |-> pid, did |-> did, ret |-> {},
   name |-> NoName, cascade |-> FALSE, purge |-> FALSE, arg |-> <<>>, srv |-> "mem"]

\* server.old.js at start: API_TOKEN from the environment, no session default
\* project, empty tables
OldStart(token) ==
  [API_TOKEN |-> token, defaultProjectId |-> 0, defaultProjectName |-> <<>>,
   projects |-> <<>>, scenes |-> <<>>, documents |-> <<>>, embeddings |-> {}]

\* no read-stream response has been opened
NoStream ==
  [srv |-> "", did |-> 0, body0 |-> <<>>, text |-> <<>>, chunkSize |-> 0, idx |-> 0,
   timer |-> FALSE, ended |-> FALSE, events |-> <<>>]

----------------------------------------------------------------------------
(* Part A: helpers of the in-memory server *)

\* Faulty variant of findProjectByName: soft-deleted projects are skipped.
findProjectByName_LiveOnly(name) ==
  LET hits == {i \in DOMAIN projects : projects[i].name = name /\ ~projects[i].deleted_at}
  IN  IF name = NoName \/ hits = {} THEN 0 ELSE Min(hits)

\* for (const p of db.projects.values()) if (p.name === name) return p;
\* a Map iterates in insertion order, which is the order of the ids drawn
findProjectByName(name) ==
  LET hits == {i \in DOMAIN projects : projects[i].name = name}
  IN  IF name = NoName \/ hits = {} THEN 0 ELSE Min(hits)

findProjectBySlug(slug) ==
  LET hits == {i \in DOMAIN projects : projects[i].slug = slug}
  IN  IF slug = <<>> \/ hits = {} THEN 0 ELSE Min(hits)

getProject(id) == IF id \in DOMAIN projects THEN id ELSE 0

\* !proj || proj.deleted_at
live(p) == p # 0 /\ ~projects[p].deleted_at

newProject(name, kind, parent_id) ==
  [name |-> name, slug |-> makeSlug(name), kind |-> kind, parent_id |-> parent_id,
   confirmed |-> FALSE, require_confirmation |-> TRUE, blocked |-> FALSE,
   deleted_at |-> FALSE, deleted_by |-> ""]

\* Faulty variant of confirmFields: require_confirmation is left as it was.
confirmFields_KeepRequire(p) == [p EXCEPT !.confirmed = TRUE, !.blocked = FALSE]

\* proj.confirmed = true; proj.require_confirmation = false; proj.blocked = false
confirmFields(p) ==
  [p EXCEPT !.confirmed = TRUE, !.require_confirmation = FALSE, !.blocked = FALSE]

softDeleted(x, who) ==
  IF x.deleted_at THEN x ELSE [x EXCEPT !.deleted_at = TRUE, !.deleted_by = who]

\* Faulty variant of restoredFrom: the snapshot is put back with its deletion marks.
restoredFrom_KeepMarks(snap) == snap

\* const restored = { ...snap }; delete restored.deleted_at; delete restored.deleted_by
restoredFrom(snap) == [snap EXCEPT !.deleted_at = FALSE, !.deleted_by = ""]

----------------------------------------------------------------------------
(* Part A: project routes *)

PostProjects(name, kind, parent_id) ==
  /\ IF name = NoName
       THEN /\ resp' = Reply("POST /projects", 400, 0, 0)
            /\ UNCHANGED memVars
     ELSE IF findProjectByName(name) # 0
       THEN /\ resp' = [Reply("POST /projects", 409, 0, 0) EXCEPT !.name = name]
            /\ UNCHANGED memVars
     ELSE /\ nextPid <= MaxProjects
          /\ projects' = Put(projects, nextPid, newProject(name, kind, parent_id))
          /\ nextPid' = nextPid + 1
          /\ resp' = [Reply("POST /projects", 200, nextPid, 0) EXCEPT !.name = name]
          /\ UNCHANGED <<docs, trashP, trashD, DEFAULT_PROJECT_ID, ALLOW_AUTOCONFIRM,
                         nextDid, preDelete>>

\* asked is the id the request named (0 when it named the project otherwise)
confirmRoute(op, p, asked) ==
  IF ~live(p)
    THEN /\ resp' = Reply(op, 404, asked, 0)
         /\ UNCHANGED memVars
  ELSE /\ projects' = [projects EXCEPT ![p] = confirmFields(@)]
       /\ resp' = Reply(op, 200, p, 0)
       /\ UNCHANGED <<docs, trashP, trashD, DEFAULT_PROJECT_ID, ALLOW_AUTOCONFIRM,
                      nextPid, nextDid, preDelete>>

ConfirmById(id) == confirmRoute("POST /projects/:id/confirm", getProject(id), id)

ConfirmByName(name, slug) ==
  confirmRoute("POST /projects/confirm",
               IF name # NoName THEN findProjectByName(name)
               ELSE IF slug # <<>> THEN findProjectBySlug(slug) ELSE 0,
               0)

LyraCommandConfirm(id, project_name, slug) ==
  confirmRoute("POST /lyra/command",
               IF id # 0 THEN getProject(id)
               ELSE IF project_name # NoName THEN findProjectByName(project_name)
               ELSE IF slug # <<>> THEN findProjectBySlug(slug) ELSE 0,
               id)

patchedProject(p, name, kind, parent_id, confirmed, require_confirmation, blocked) ==
  LET p1 == IF name # NoName THEN [p EXCEPT !.name = name, !.slug = makeSlug(name)] ELSE p
      p2 == IF kind # "" THEN [p1 EXCEPT !.kind = kind] ELSE p1
      p3 == IF parent_id # UNDEF THEN [p2 EXCEPT !.parent_id = parent_id] ELSE p2
      p4 == IF confirmed # UNDEF THEN [p3 EXCEPT !.confirmed = (confirmed = 1)] ELSE p3
      p5 == IF require_confirmation # UNDEF
              THEN [p4 EXCEPT !.require_confirmation = (require_confirmation = 1)] ELSE p4
  IN  IF blocked # UNDEF THEN [p5 EXCEPT !.blocked = (blocked = 1)] ELSE p5

PatchProject(id, name, kind, parent_id, confirmed, require_confirmation, blocked) ==
  IF ~live(getProject(id))
    THEN /\ resp' = Reply("PATCH /projects/:id", 404, 0, 0)
         /\ UNCHANGED memVars
  ELSE /\ projects' = [projects EXCEPT ![id] =
                         patchedProject(@, name, kind, parent_id, confirmed,
                                        require_confirmation, blocked)]
       /\ resp' = [Reply("PATCH /projects/:id", 200, id, 0) EXCEPT !.name = name]
       /\ UNCHANGED <<docs, trashP, trashD, DEFAULT_PROJECT_ID, ALLOW_AUTOCONFIRM,
                      nextPid, nextDid, preDelete>>

SetDefault(name, id) ==
  LET p == IF id # 0 THEN getProject(id)
           ELSE IF name # NoName THEN findProjectByName(name) ELSE 0
  IN  IF ~live(p)
        THEN /\ resp' = Reply("POST /projects/set-default", 404, 0, 0)
             /\ UNCHANGED memVars
      ELSE /\ DEFAULT_PROJECT_ID' = p
           /\ resp' = Reply("POST /projects/set-default", 200, p, 0)
           /\ UNCHANGED <<projects, docs, trashP, trashD, ALLOW_AUTOCONFIRM,
                          nextPid, nextDid, preDelete>>

----------------------------------------------------------------------------
(* Part A: middlewares *)

\* 0 stands for the 400 'project resolution failed' answer
resolveProjectId(ref) ==
  LET proj == IF ref.project_id # 0 THEN getProject(ref.project_id)
              ELSE IF ref.project_name # NoName THEN findProjectByName(ref.project_name)
              ELSE IF ref.header # 0 THEN getProject(ref.header)
              ELSE IF DEFAULT_PROJECT_ID # 0 THEN getProject(DEFAULT_PROJECT_ID)
              ELSE 0
  IN  IF live(proj) THEN proj ELSE 0

\* Faulty variant of requireConfirmedProject: the unconfirmed case is let through.
requireConfirmedProject_NoGate(p) == IF p.blocked THEN 403 ELSE 0

\* the status the gate answers for project record p; 0 stands for next()
requireConfirmedProject(p) ==
  IF p.blocked THEN 403
  ELSE IF p.require_confirmation /\ ~p.confirmed
         THEN (IF ALLOW_AUTOCONFIRM THEN 0 ELSE 412)
  ELSE 0

\* db.projects after the gate ran on project id (the ALLOW_AUTOCONFIRM branch writes)
gateProjects(id) ==
  LET p == projects[id]
  IN  IF ~p.blocked /\ p.require_confirmation /\ ~p.confirmed /\ ALLOW_AUTOCONFIRM
        THEN [projects EXCEPT ![id] = confirmFields(@)]
      ELSE projects

\* resolveProjectId, requireConfirmedProject: the status that ends the request
\* before the handler runs, or 0
gateStatus(ref) ==
  LET id == resolveProjectId(ref)
  IN  IF id = 0 THEN 400 ELSE requireConfirmedProject(projects[id])

----------------------------------------------------------------------------
(* Part A: tag and title filters *)

normalizeSpaces(s) ==
  LET RECURSIVE go(_)
      go(t) == IF t = <<>> THEN <<>>
               ELSE IF isSpace(Head(t)) THEN <<" ">> \o go(trimStart(t))
               ELSE <<Head(t)>> \o go(Tail(t))
  IN  go(s)

normalizeTitle(s) == trim(normalizeSpaces(toLowerCase(s)))

includes(arr, t) == \E i \in DOMAIN arr : arr[i] = t

\* String(query.tags).split(',')
RECURSIVE splitComma(_)
splitComma(s) ==
  LET cut == {i \in DOMAIN s : s[i] = ","}
  IN  IF cut = {} THEN <<s>>
      ELSE <<SubSeq(s, 1, Min(cut) - 1)>> \o splitComma(SubSeq(s, Min(cut) + 1, Len(s)))

nonEmpty(t) == t # <<>>

\* .map(s => s.trim()).filter(Boolean)
trimAll(parts) == SelectSeq([i \in DOMAIN parts |-> trim(parts[i])], nonEmpty)

\* Array.from(new Set(wanted)): first occurrences, in order
RECURSIVE unique(_)
unique(w) ==
  IF w = <<>> THEN <<>>
  ELSE LET init == unique(SubSeq(w, 1, Len(w) - 1))
       IN  IF includes(init, w[Len(w)]) THEN init ELSE Append(init, w[Len(w)])

\* query.tag is [isArray, val]: a repeated parameter (val an array of tags) or one
\* string (val the tag, empty when absent); query.tags is the comma-separated text
wantedTags(query) ==
  LET fromTag == IF query.tag.isArray THEN query.tag.val
                 ELSE IF query.tag.val # <<>> THEN <<query.tag.val>> ELSE <<>>
      fromTags == IF query.tags # <<>> THEN trimAll(splitComma(query.tags)) ELSE <<>>
  IN  unique(fromTag \o fromTags)

tagsModeOf(query) == toLowerCase(IF query.tagsMode # <<>> THEN query.tagsMode ELSE <<"a", "l", "l">>)

\* Faulty variant of tagPass: tagsMode is not read, every wanted tag is required.
tagPass_AlwaysAll(d, query) ==
  LET wanted == wantedTags(query)
      docTags == IF d.tags.isArray THEN d.tags.val ELSE <<>>
  IN  \A i \in DOMAIN wanted : includes(docTags, wanted[i])

\* the filter callback of applyTagFilter for one document
tagPass(d, query) ==
  LET wanted == wantedTags(query)
      docTags == IF d.tags.isArray THEN d.tags.val ELSE <<>>
  IN  IF tagsModeOf(query) = <<"a", "n", "y">>
        THEN \E i \in DOMAIN wanted : includes(docTags, wanted[i])
      ELSE \A i \in DOMAIN wanted : includes(docTags, wanted[i])

applyTagFilter(items, query) ==
  IF Len(wantedTags(query)) = 0 THEN items
  ELSE LET keep(d) == tagPass(d, query) IN SelectSeq(items, keep)

\* String(m[mk]) === String(mv)
metaHas(m, k, v) == m.isObject /\ k \in DOMAIN m.val /\ m.val[k] = v

applyMetaFilter(items, query) ==
  LET keep(d) == \A i \in DOMAIN query.meta :
                   metaHas(d.meta, query.meta[i][1], query.meta[i][2])
  IN  IF Len(query.meta) = 0 THEN items ELSE SelectSeq(items, keep)

----------------------------------------------------------------------------
(* Part A: document routes *)

NoTitle == <<>>
Arr(items) == [isArray |-> TRUE, val |-> items]
NotArr(v) == [isArray |-> FALSE, val |-> v]
TagX == <<"x">>
TagY == <<"y">>
\* a meta value is [isObject, val]: a JSON object (val its key -> value function) or not
EmptyMeta == [isObject |-> TRUE, val |-> <<>>]
NoMeta == [isObject |-> FALSE, val |-> <<>>]
NoTag == NotArr(<<>>)
\* query.meta is the sequence of the <<key, value>> pairs given as meta.<key>=<value>
NoQuery == [title |-> NoTitle, doc_type |-> "", ci |-> FALSE,
            tag |-> NoTag, tags |-> <<>>, tagsMode |-> <<>>, meta |-> <<>>]

newDoc(id, project_id, doc_type, title, body_md, tags, meta) ==
  [id |-> id, project_id |-> project_id, doc_type |-> doc_type, title |-> title,
   body_md |-> body_md, tags |-> tags,
   meta |-> meta, deleted_at |-> FALSE, deleted_by |-> ""]

\* Array.from(db.docs.values()) restricted to a set of ids, in insertion order
RECURSIVE docList(_)
docList(ids) ==
  IF ids = {} THEN <<>> ELSE <<docs[Min(ids)]>> \o docList(ids \ {Min(ids)})

idsOf(items) == {items[i].id : i \in DOMAIN items}

\* d.project_id === req.project.id && !d.deleted_at
visibleIn(p) == {i \in DOMAIN docs : docs[i].project_id = p /\ ~docs[i].deleted_at}

titleAndType(items, query) ==
  LET byTitle(d) == IF query.ci THEN normalizeTitle(d.title) = normalizeTitle(query.title)
                    ELSE d.title = query.title
      byType(d) == d.doc_type = query.doc_type
      i1 == IF query.title # NoTitle THEN SelectSeq(items, byTitle) ELSE items
  IN  IF query.doc_type # "" THEN SelectSeq(i1, byType) ELSE i1

\* Faulty variant of docFound: the project of the document is not compared.
docFound_AnyProject(id, p) == id \in DOMAIN docs /\ ~docs[id].deleted_at

\* !doc || doc.project_id !== req.project.id || doc.deleted_at
docFound(id, p) == id \in DOMAIN docs /\ docs[id].project_id = p /\ ~docs[id].deleted_at

PostDoc(ref, doc_type, title, body_md, tags, meta) ==
  LET p == resolveProjectId(ref)
      g == gateStatus(ref)
  IN  IF g # 0
        THEN /\ resp' = Reply("POST /doc", g, p, 0)
             /\ UNCHANGED memVars
      ELSE IF doc_type = "" \/ title = NoTitle
        THEN /\ resp' = Reply("POST /doc", 400, p, 0)
             /\ projects' = gateProjects(p)
             /\ UNCHANGED <<docs, trashP, trashD, DEFAULT_PROJECT_ID, ALLOW_AUTOCONFIRM,
                            nextPid, nextDid, preDelete>>
      ELSE /\ nextDid <= MaxDocs
           /\ docs' = Put(docs, nextDid, newDoc(nextDid, p, doc_type, title, body_md, tags, meta))
           /\ nextDid' = nextDid + 1
           /\ projects' = gateProjects(p)
           /\ resp' = Reply("POST /doc", 200, p, nextDid)
           /\ UNCHANGED <<trashP, trashD, DEFAULT_PROJECT_ID, ALLOW_AUTOCONFIRM,
                          nextPid, preDelete>>

GetDocList(ref, query) ==
  LET p == resolveProjectId(ref)
  IN  /\ resp' = IF p = 0 THEN Reply("GET /doc", 400, 0, 0)
                 ELSE [Reply("GET /doc", 200, p, 0) EXCEPT !.arg = query, !.ret =
                         idsOf(applyMetaFilter(applyTagFilter(
                                 titleAndType(docList(visibleIn(p)), query), query), query))]
      /\ UNCHANGED memVars

GetDocById(ref, id) ==
  LET p == resolveProjectId(ref)
  IN  /\ resp' = IF p = 0 THEN Reply("GET /doc/:id", 400, 0, id)
                 ELSE IF ~docFound(id, p) THEN Reply("GET /doc/:id", 404, p, id)
                 ELSE [Reply("GET /doc/:id", 200, p, id) EXCEPT !.ret = {id}]
      /\ UNCHANGED memVars

\* the fields PATCH /doc/:id writes; hasBody is typeof body_md === 'string'
patchedDoc(d, doc_type, title, hasBody, body_md, tags, meta, append) ==
  LET d1 == IF doc_type # "" THEN [d EXCEPT !.doc_type = doc_type] ELSE d
      d2 == IF title # NoTitle THEN [d1 EXCEPT !.title = title] ELSE d1
      d3 == IF tags.isArray THEN [d2 EXCEPT !.tags = tags] ELSE d2
      d4 == IF meta.isObject THEN [d3 EXCEPT !.meta = meta] ELSE d3
  IN  IF hasBody
        THEN [d4 EXCEPT !.body_md = IF append THEN d.body_md \o <<"\n">> \o body_md ELSE body_md]
      ELSE d4

PatchDoc(ref, id, doc_type, title, hasBody, body_md, tags, meta, append) ==
  LET p == resolveProjectId(ref)
      g == gateStatus(ref)
  IN  IF g # 0
        THEN /\ resp' = Reply("PATCH /doc/:id", g, p, id)
             /\ UNCHANGED memVars
      ELSE IF ~docFound(id, p)
        THEN /\ resp' = Reply("PATCH /doc/:id", 404, p, id)
             /\ projects' = gateProjects(p)
             /\ UNCHANGED <<docs, trashP, trashD, DEFAULT_PROJECT_ID, ALLOW_AUTOCONFIRM,
                            nextPid, nextDid, preDelete>>
      ELSE LET d == patchedDoc(docs[id], doc_type, title, hasBody, body_md, tags, meta, append)
           IN  /\ Len(d.body_md) <= MaxBodyLen
               /\ docs' = [docs EXCEPT ![id] = d]
               /\ projects' = gateProjects(p)
               /\ resp' = Reply("PATCH /doc/:id", 200, p, id)
               /\ UNCHANGED <<trashP, trashD, DEFAULT_PROJECT_ID, ALLOW_AUTOCONFIRM,
                              nextPid, nextDid, preDelete>>

----------------------------------------------------------------------------
(* Part A: safe delete and restore *)

\* db.trash.docs entries whose project_id is not p
trashWithout(t, p) == Restrict(t, {i \in DOMAIN t : t[i].project_id # p})

\* softDeleteDoc over a set of document ids, on the pair (docs, trash)
softDeleteDocsIn(ds, ids, who) ==
  [i \in DOMAIN ds |-> IF i \in ids THEN softDeleted(ds[i], who) ELSE ds[i]]

softDeleteTrash(ds, tr, ids, who) ==
  [i \in DOMAIN tr \cup ids |-> IF i \in ids THEN softDeleted(ds[i], who) ELSE tr[i]]

DeleteDoc(id, purge, confirmTitle) ==
  LET R(st) == [Reply("DELETE /doc/:id", st, 0, id) EXCEPT !.purge = purge]
  IN  IF id \notin DOMAIN docs
        THEN IF purge /\ id \in DOMAIN trashD
               THEN /\ trashD' = Remove(trashD, id)
                    /\ docs' = Remove(docs, id)
                    /\ preDelete' = Remove(preDelete, id)
                    /\ resp' = R(200)
                    /\ UNCHANGED <<projects, trashP, DEFAULT_PROJECT_ID, ALLOW_AUTOCONFIRM,
                                   nextPid, nextDid>>
             ELSE /\ resp' = R(404)
                  /\ UNCHANGED memVars
      ELSE IF confirmTitle # NoTitle /\ confirmTitle # docs[id].title
        THEN /\ resp' = R(412)
             /\ UNCHANGED memVars
      ELSE /\ docs' = IF purge THEN Remove(docs, id) ELSE softDeleteDocsIn(docs, {id}, "api")
           /\ trashD' = IF purge THEN Remove(trashD, id)
                        ELSE softDeleteTrash(docs, trashD, {id}, "api")
           /\ preDelete' = IF purge THEN Remove(preDelete, id) ELSE Put(preDelete, id, docs[id])
           /\ resp' = R(200)
           /\ UNCHANGED <<projects, trashP, DEFAULT_PROJECT_ID, ALLOW_AUTOCONFIRM,
                          nextPid, nextDid>>

\* Faulty variant of confirmNameFails: only a missing header is refused.
confirmNameFails_AbsentOnly(confirmName, proj) == confirmName = NoName

\* !confirmName || confirmName !== proj.name
confirmNameFails(confirmName, proj) == confirmName = NoName \/ confirmName # proj.name

DeleteProject(id, cascade, purge, confirmName) ==
  LET R(st) == [Reply("DELETE /projects/:id", st, id, 0) EXCEPT
                  !.name = confirmName, !.cascade = cascade, !.purge = purge]
      children == visibleIn(id)
      docs1 == IF cascade THEN softDeleteDocsIn(docs, children, "cascade") ELSE docs
      trash1 == IF cascade THEN softDeleteTrash(docs, trashD, children, "cascade") ELSE trashD
      proj1 == softDeleted(projects[id], "api")
  IN  IF id \notin DOMAIN projects
        THEN IF purge /\ id \in DOMAIN trashP
               THEN /\ trashP' = Remove(trashP, id)
                    /\ projects' = Remove(projects, id)
                    /\ resp' = R(200)
                    /\ UNCHANGED <<docs, trashD, DEFAULT_PROJECT_ID, ALLOW_AUTOCONFIRM,
                                   nextPid, nextDid, preDelete>>
             ELSE /\ resp' = R(404)
                  /\ UNCHANGED memVars
      ELSE IF confirmNameFails(confirmName, projects[id])
        THEN /\ resp' = R(412)
             /\ UNCHANGED memVars
      ELSE IF Cardinality(children) > 0 /\ ~cascade
        THEN /\ resp' = R(409)
             /\ UNCHANGED memVars
      ELSE /\ docs' = docs1
           /\ trashD' = IF purge THEN trashWithout(trash1, id) ELSE trash1
           /\ projects' = IF purge THEN Remove(projects, id)
                          ELSE [projects EXCEPT ![id] = proj1]
           /\ trashP' = IF purge THEN Remove(trashP, id) ELSE Put(trashP, id, proj1)
           /\ preDelete' =
                LET pd == IF cascade
                            THEN [i \in DOMAIN preDelete \cup children |->
                                    IF i \in children THEN docs[i] ELSE preDelete[i]]
                          ELSE preDelete
                IN  IF purge THEN Restrict(pd, DOMAIN trashWithout(trash1, id)) ELSE pd
           /\ resp' = R(200)
           /\ UNCHANGED <<DEFAULT_PROJECT_ID, ALLOW_AUTOCONFIRM, nextPid, nextDid>>

RestoreDoc(id) ==
  IF id \notin DOMAIN trashD
    THEN /\ resp' = Reply("POST /doc/:id/restore", 404, 0, id)
         /\ UNCHANGED memVars
  ELSE /\ docs' = Put(docs, id, restoredFrom(trashD[id]))
       /\ trashD' = Remove(trashD, id)
       /\ preDelete' = Remove(preDelete, id)
       /\ resp' = Reply("POST /doc/:id/restore", 200, 0, id)
       /\ UNCHANGED <<projects, trashP, DEFAULT_PROJECT_ID, ALLOW_AUTOCONFIRM,
                      nextPid, nextDid>>

\* Faulty variant of RestoreProject: the documents of the project are restored with it.
RestoreProject_WithDocs(id) ==
  IF id \notin DOMAIN trashP
    THEN /\ resp' = Reply("POST /projects/:id/restore", 404, id, 0)
         /\ UNCHANGED memVars
  ELSE /\ projects' = Put(projects, id, restoredFrom(trashP[id]))
       /\ trashP' = Remove(trashP, id)
       /\ docs' = [i \in DOMAIN docs |->
                     IF docs[i].project_id = id THEN restoredFrom(docs[i]) ELSE docs[i]]
       /\ trashD' = trashWithout(trashD, id)
       /\ resp' = Reply("POST /projects/:id/restore", 200, id, 0)
       /\ UNCHANGED <<DEFAULT_PROJECT_ID, ALLOW_AUTOCONFIRM, nextPid, nextDid, preDelete>>

RestoreProject(id) ==
  IF id \notin DOMAIN trashP
    THEN /\ resp' = Reply("POST /projects/:id/restore", 404, id, 0)
         /\ UNCHANGED memVars
  ELSE /\ projects' = Put(projects, id, restoredFrom(trashP[id]))
       /\ trashP' = Remove(trashP, id)
       /\ resp' = Reply("POST /projects/:id/restore", 200, id, 0)
       /\ UNCHANGED <<docs, trashD, DEFAULT_PROJECT_ID, ALLOW_AUTOCONFIRM,
                      nextPid, nextDid, preDelete>>

----------------------------------------------------------------------------
(* Part A: Lyra helper routes *)

\* the update branch of POST /lyra/paste-save; v2.3.0 joins with the two
\* characters backslash and n (the literal '\\n' of the source)
pasteUpdated(d, doc_type, title, body_md, tags, meta, sceneWriteMode) ==
  [d EXCEPT !.doc_type = doc_type, !.title = title, !.tags = tags, !.meta = meta,
            !.body_md = IF sceneWriteMode = "append"
                          THEN d.body_md \o <<"\\", "n">> \o body_md ELSE body_md]

PasteSave(ref, docMode, sceneWriteMode, id, doc_type, title, body_md, tags, meta) ==
  LET p == resolveProjectId(ref)
      g == gateStatus(ref)
      op == "POST /lyra/paste-save"
      keep == <<trashP, trashD, DEFAULT_PROJECT_ID, ALLOW_AUTOCONFIRM, nextPid, preDelete>>
  IN  IF g # 0
        THEN /\ resp' = Reply(op, g, p, id)
             /\ UNCHANGED memVars
      ELSE IF doc_type = "" \/ title = NoTitle \/ (docMode = "update" /\ id = 0)
        THEN /\ resp' = Reply(op, 400, p, id)
             /\ projects' = gateProjects(p)
             /\ UNCHANGED <<docs, nextDid>>
             /\ UNCHANGED keep
      ELSE IF docMode = "update"
        THEN IF id \notin DOMAIN docs \/ docs[id].project_id # p
               THEN /\ resp' = Reply(op, 404, p, id)
                    /\ projects' = gateProjects(p)
                    /\ UNCHANGED <<docs, nextDid>>
                    /\ UNCHANGED keep
             ELSE LET d == pasteUpdated(docs[id], doc_type, title, body_md, tags, meta,
                                        sceneWriteMode)
                  IN  /\ Len(d.body_md) <= MaxBodyLen
                      /\ docs' = [docs EXCEPT ![id] = d]
                      /\ projects' = gateProjects(p)
                      /\ resp' = Reply(op, 200, p, id)
                      /\ UNCHANGED nextDid
                      /\ UNCHANGED keep
      ELSE /\ nextDid <= MaxDocs
           /\ docs' = Put(docs, nextDid, newDoc(nextDid, p, doc_type, title, body_md, tags, meta))
           /\ nextDid' = nextDid + 1
           /\ projects' = gateProjects(p)
           /\ resp' = Reply(op, 200, p, nextDid)
           /\ UNCHANGED keep

LyraRead(ref, id, query) ==
  LET p == resolveProjectId(ref)
      op == "GET /lyra/read"
      candidates == applyMetaFilter(applyTagFilter(titleAndType(docList(visibleIn(p)), query),
                                                   query), query)
  IN  /\ resp' = IF p = 0 THEN Reply(op, 400, 0, id)
                 ELSE IF id # 0
                   THEN (IF ~docFound(id, p) THEN Reply(op, 404, p, id)
                         ELSE [Reply(op, 200, p, id) EXCEPT !.ret = {id}])
                 ELSE IF Len(candidates) = 0 THEN [Reply(op, 404, p, 0) EXCEPT !.arg = query]
                 ELSE [Reply(op, 200, p, 0) EXCEPT !.arg = query, !.ret = idsOf(candidates)]
      /\ UNCHANGED memVars

\* the loop of POST /lyra/ingest over the items, on (docs, next fresh id)
RECURSIVE ingestLoop(_, _, _, _)
ingestLoop(items, ds, nd, p) ==
  IF items = <<>> THEN [docs |-> ds, nextDid |-> nd]
  ELSE LET item == Head(items)
       IN  IF item.doc_type = "" \/ item.title = NoTitle
             THEN ingestLoop(Tail(items), ds, nd, p)
           ELSE IF item.id # 0 /\ item.id \in DOMAIN ds
             THEN IF ds[item.id].project_id # p
                    THEN ingestLoop(Tail(items), ds, nd, p)
                  ELSE ingestLoop(Tail(items),
                         [ds EXCEPT ![item.id] =
                            [@ EXCEPT !.doc_type = item.doc_type, !.title = item.title,
                                      !.body_md = item.body_md, !.tags = item.tags,
                                      !.meta = item.meta]],
                         nd, p)
           ELSE ingestLoop(Tail(items),
                  Put(ds, nd, newDoc(nd, p, item.doc_type, item.title, item.body_md,
                                     item.tags, item.meta)),
                  nd + 1, p)

\* items is the docs array of the body; the empty sequence also stands for a
\* body whose docs is missing or not an array
LyraIngest(ref, items) ==
  LET p == resolveProjectId(ref)
      g == gateStatus(ref)
      op == "POST /lyra/ingest"
      out == ingestLoop(items, docs, nextDid, p)
      keep == <<trashP, trashD, DEFAULT_PROJECT_ID, ALLOW_AUTOCONFIRM, nextPid, preDelete>>
  IN  IF g # 0
        THEN /\ resp' = Reply(op, g, p, 0)
             /\ UNCHANGED memVars
      ELSE IF Len(items) = 0
        THEN /\ resp' = Reply(op, 400, p, 0)
             /\ projects' = gateProjects(p)
             /\ UNCHANGED <<docs, nextDid>>
             /\ UNCHANGED keep
      ELSE /\ out.nextDid <= MaxDocs + 1
           /\ docs' = out.docs
           /\ nextDid' = out.nextDid
           /\ projects' = gateProjects(p)
           /\ resp' = Reply(op, 200, p, 0)
           /\ UNCHANGED keep

----------------------------------------------------------------------------
(* Part A: the in-memory server as a state machine *)

NoReply == Reply("", 0, 0, 0)

InitMem ==
  /\ projects = <<>>
  /\ docs = <<>>
  /\ trashP = <<>>
  /\ trashD = <<>>
  /\ DEFAULT_PROJECT_ID = 0
  /\ ALLOW_AUTOCONFIRM \in BOOLEAN
  /\ nextPid = 1
  /\ nextDid = 1
  /\ preDelete = <<>>
  /\ resp = NoReply
  /\ dbReady = TRUE
  /\ misc = <<>> /\ clock = 0 /\ job = <<>> /\ written = <<>>
  /\ stream = NoStream
  /\ old = OldStart(<<>>)

\* PATCH /projects/:id bodies: nothing but the name, un-confirm, block
PatchFlagIn == {<<UNDEF, UNDEF, UNDEF>>, <<0, 1, UNDEF>>, <<UNDEF, UNDEF, 1>>}
ById(i) == [project_id |-> i, project_name |-> NoName, header |-> 0]
ByName(n) == [project_id |-> 0, project_name |-> n, header |-> 0]
ByHeader(i) == [project_id |-> 0, project_name |-> NoName, header |-> i]
ByDefault == ById(0)
TitleT == <<"T">>
BodyX == <<"x">>
BodyY == <<"y">>
QueryIn == {NoQuery, [NoQuery EXCEPT !.tags = TagY]}
ItemIn ==
  {[id |-> i, doc_type |-> "scene", title |-> TitleT, body_md |-> BodyY,
    tags |-> Arr(<<TagX>>), meta |-> EmptyMeta] : i \in DIDs \cup {0}}

\* what the in-memory routes never touch
idle == UNCHANGED <<dbReady, pgVars, stream, old>>

(* SpecProj: the project routes under every name, with the document routes *)
(* that decide whether a project has documents.                            *)

NextProj ==
  \/ \E name \in NameSet \cup {NoName} : PostProjects(name, "book", 0) /\ idle
  \/ \E id \in PIDs : ConfirmById(id) /\ idle
  \/ \E name \in NameSet : ConfirmByName(name, <<>>) /\ idle
  \/ \E slug \in SlugSet : ConfirmByName(NoName, slug) /\ idle
  \/ \E id \in PIDs : LyraCommandConfirm(id, NoName, <<>>) /\ idle
  \/ \E name \in NameSet : LyraCommandConfirm(0, name, <<>>) /\ idle
  \/ \E slug \in SlugSet : LyraCommandConfirm(0, NoName, slug) /\ idle
  \/ \E id \in PIDs, name \in NameSet \cup {NoName}, f \in PatchFlagIn :
       PatchProject(id, name, "", UNDEF, f[1], f[2], f[3]) /\ idle
  \/ \E id \in PIDs, cascade, purge \in BOOLEAN, confirmName \in NameSet \cup {NoName} :
       DeleteProject(id, cascade, purge, confirmName) /\ idle
  \/ \E id \in PIDs : RestoreProject(id) /\ idle
  \/ \E id \in PIDs : PostDoc(ById(id), "scene", TitleT, BodyX, Arr(<<TagX>>), EmptyMeta) /\ idle
  \/ \E id \in DIDs : DeleteDoc(id, FALSE, NoTitle) /\ idle
  \/ \E id \in DIDs : RestoreDoc(id) /\ idle

InitProj == InitMem /\ ALLOW_AUTOCONFIRM = FALSE

SpecProj == InitProj /\ [][NextProj]_vars

(* SpecGate: the gated write routes, over projects that are created, confirmed, *)
(* un-confirmed, blocked and made the default.                                  *)
RefGate == {ById(i) : i \in PIDs} \cup {ByDefault, ByName(<<"a">>), ByHeader(1)}

NextGate ==
  \/ \E name \in NameSet : PostProjects(name, "book", 0) /\ idle
  \/ \E id \in PIDs : ConfirmById(id) /\ idle
  \/ \E id \in PIDs, f \in PatchFlagIn : PatchProject(id, NoName, "", UNDEF, f[1], f[2], f[3]) /\ idle
  \/ \E id \in PIDs : SetDefault(NoName, id) /\ idle
  \/ \E ref \in RefGate, doc_type \in {"", "scene"} :
       PostDoc(ref, doc_type, TitleT, BodyX, Arr(<<TagX>>), EmptyMeta) /\ idle
  \/ \E ref \in RefGate, id \in DIDs, append \in BOOLEAN :
       PatchDoc(ref, id, "", NoTitle, TRUE, BodyY, NoTag, NoMeta, append) /\ idle
  \/ \E ref \in RefGate, id \in DIDs \cup {0} :
       PasteSave(ref, IF id = 0 THEN "create" ELSE "update", "overwrite", id, "scene",
                 TitleT, BodyY, Arr(<<TagX>>), EmptyMeta) /\ idle
  \/ \E ref \in RefGate, item \in ItemIn : LyraIngest(ref, <<item>>) /\ idle

SpecGate == InitMem /\ [][NextGate]_vars

(* SpecDoc: the document routes with delete, purge and restore, over projects *)
(* that are created, confirmed, deleted and restored.                         *)
RefDoc == {ById(i) : i \in PIDs} \cup {ByName(<<"a">>)}

NextDoc ==
  \/ \E name \in NameSet : PostProjects(name, "book", 0) /\ idle
  \/ \E id \in PIDs : ConfirmById(id) /\ idle
  \/ \E id \in PIDs, cascade, purge \in BOOLEAN, confirmName \in NameSet :
       DeleteProject(id, cascade, purge, confirmName) /\ idle
  \/ \E id \in PIDs : RestoreProject(id) /\ idle
  \/ \E ref \in RefDoc : PostDoc(ref, "scene", TitleT, BodyX, Arr(<<TagX>>), EmptyMeta) /\ idle
  \/ \E ref \in RefDoc, query \in QueryIn : GetDocList(ref, query) /\ idle
  \/ \E ref \in RefDoc, id \in DIDs : GetDocById(ref, id) /\ idle
  \/ \E ref \in RefDoc, id \in DIDs :
       PatchDoc(ref, id, "", NoTitle, TRUE, BodyY, NoTag, NoMeta, FALSE) /\ idle
  \/ \E id \in DIDs, purge \in BOOLEAN, confirmTitle \in {NoTitle, <<"t">>} :
       DeleteDoc(id, purge, confirmTitle) /\ idle
  \/ \E id \in DIDs : RestoreDoc(id) /\ idle
  \/ \E ref \in RefDoc, id \in DIDs :
       PasteSave(ref, "update", "overwrite", id, "scene", TitleT, BodyY, Arr(<<TagX>>), EmptyMeta) /\ idle
  \/ \E ref \in RefDoc, id \in DIDs \cup {0}, query \in QueryIn : LyraRead(ref, id, query) /\ idle
  \/ \E ref \in RefDoc, item \in ItemIn : LyraIngest(ref, <<item>>) /\ idle

SpecDoc == InitMem /\ [][NextDoc]_vars

----------------------------------------------------------------------------
(* Part A: properties of the in-memory server *)

GatedOps == {"POST /doc", "PATCH /doc/:id", "POST /lyra/paste-save", "POST /lyra/ingest"}
ConfirmOps == {"POST /projects/:id/confirm", "POST /projects/confirm", "POST /lyra/command"}
ReadOps == {"GET /doc", "GET /doc/:id", "GET /lyra/read"}

\* the project a step's request resolved to was live, not blocked and unconfirmed
unconfirmedBefore(p) ==
  /\ p \in DOMAIN projects
  /\ ~projects[p].deleted_at
  /\ ~projects[p].blocked
  /\ projects[p].require_confirmation
  /\ ~projects[p].confirmed

\* C1 (SpecGate): with ALLOW_AUTOCONFIRM off, every POST /doc, PATCH /doc/:id,
\* POST /lyra/paste-save and POST /lyra/ingest that resolves to a non-blocked
\* project with require_confirmation and not confirmed is answered 412 and leaves
\* db.docs and db.projects as they were; and a gated request that directly follows
\* a successful confirm of the project it resolves to passes the gate (neither
\* 412 nor 403).
C1_GateStep ==
  /\ (resp'.op \in GatedOps /\ ~ALLOW_AUTOCONFIRM /\ unconfirmedBefore(resp'.pid))
       => (resp'.status = 412 /\ docs' = docs /\ projects' = projects)
  /\ (resp.op \in ConfirmOps /\ resp.status = 200 /\ resp'.op \in GatedOps
        /\ resp'.pid = resp.pid)
       => resp'.status \notin {412, 403}

C1_UnconfirmedWriteRejected == [][C1_GateStep]_vars

\* a PATCH /doc/:id on a stored document was answered 412
C1_Witness ==
  /\ ~ALLOW_AUTOCONFIRM
  /\ resp.op = "PATCH /doc/:id"
  /\ resp.status = 412
  /\ resp.did \in DOMAIN docs
  /\ unconfirmedBefore(resp.pid)

\* what a successful POST /projects with name n adds
addsOneProject(n) ==
  LET id == resp'.pid
  IN  /\ resp'.status = 200
      /\ id \notin DOMAIN projects
      /\ DOMAIN projects' = DOMAIN projects \cup {id}
      /\ \A q \in DOMAIN projects : projects'[q] = projects[q]
      /\ projects'[id].name = n
      /\ ~projects'[id].confirmed
      /\ projects'[id].require_confirmation
      /\ ~projects'[id].blocked

C2_StepLive ==
  (resp'.op = "POST /projects" /\ resp'.name # NoName) =>
    IF \E i \in DOMAIN projects : projects[i].name = resp'.name /\ ~projects[i].deleted_at
      THEN resp'.status = 409 /\ projects' = projects
    ELSE addsOneProject(resp'.name)

C2_StepStored ==
  (resp'.op = "POST /projects" /\ resp'.name # NoName) =>
    IF \E i \in DOMAIN projects : projects[i].name = resp'.name
      THEN resp'.status = 409 /\ projects' = projects
    ELSE addsOneProject(resp'.name)

\* C2 as stated (SpecProj): POST /projects with name n answers 409 and changes
\* nothing iff a stored project that is not soft-deleted has name n, and otherwise
\* adds exactly one project with that name, unconfirmed, requiring confirmation,
\* not blocked.
C2_AsStated == [][C2_StepLive]_vars

\* C2 amended (SpecProj): POST /projects with name n answers 409 and changes
\* nothing iff any project stored in db.projects, soft-deleted or not, has name n,
\* and otherwise adds exactly one project with that name, unconfirmed, requiring
\* confirmation, not blocked.
C2_DuplicateNameConflict == [][C2_StepStored]_vars

\* a POST /projects was answered 409 for the name of a soft-deleted project
C2_Witness ==
  /\ resp.op = "POST /projects"
  /\ resp.status = 409
  /\ \E i \in DOMAIN projects : projects[i].name = resp.name /\ projects[i].deleted_at
  /\ ~\E i \in DOMAIN projects : projects[i].name = resp.name /\ ~projects[i].deleted_at

\* C3 (SpecProj): a confirm route that names a live project by id, or resolves to
\* a live project by name or slug, answers 200, sets confirmed and clears
\* require_confirmation of that project, keeps its name, slug, kind, parent and
\* deletion marks, and changes no other project, no document and no trash entry;
\* a second confirm of the same project directly after answers 200 and changes
\* nothing at all.
C3_ConfirmStep ==
  LET p == resp'.pid
  IN  /\ (resp'.op \in ConfirmOps /\ p \in DOMAIN projects /\ ~projects[p].deleted_at)
           => resp'.status = 200
      /\ (resp'.op \in ConfirmOps /\ resp'.status = 200)
           => /\ p \in DOMAIN projects
              /\ ~projects[p].deleted_at
              /\ DOMAIN projects' = DOMAIN projects
              /\ projects'[p].confirmed
              /\ ~projects'[p].require_confirmation
              /\ projects'[p].name = projects[p].name
              /\ projects'[p].slug = projects[p].slug
              /\ projects'[p].kind = projects[p].kind
              /\ projects'[p].parent_id = projects[p].parent_id
              /\ projects'[p].deleted_at = projects[p].deleted_at
              /\ projects'[p].deleted_by = projects[p].deleted_by
              /\ \A q \in DOMAIN projects \ {p} : projects'[q] = projects[q]
              /\ docs' = docs /\ trashP' = trashP /\ trashD' = trashD
      /\ (resp.op \in ConfirmOps /\ resp.status = 200 /\ resp'.op \in ConfirmOps
            /\ p = resp.pid)
           => (resp'.status = 200 /\ projects' = projects /\ docs' = docs)

C7_NamesUnique ==
  \A i, j \in DOMAIN projects : i # j => projects[i].name # projects[j].name

\* C8 (SpecDoc): a POST /doc/:id/restore that answers 200 puts the document back
\* with every field as it was just before the delete that trashed it, without
\* deleted_at and deleted_by, and removes its trash entry; no GET /doc,
\* GET /doc/:id or GET /lyra/read returns a document that is in the trash or
\* marked deleted; a restore of the same id directly after a successful one
\* answers 404.
C8_Step ==
  LET d == resp'.did
  IN  /\ (resp'.op = "POST /doc/:id/restore" /\ resp'.status = 200)
           => /\ d \in DOMAIN preDelete
              /\ d \in DOMAIN docs'
              /\ docs'[d] = [preDelete[d] EXCEPT !.deleted_at = FALSE, !.deleted_by = ""]
              /\ d \notin DOMAIN trashD'
      /\ (resp'.op \in ReadOps /\ resp'.status = 200)
           => \A r \in resp'.ret :
                r \in DOMAIN docs /\ ~docs[r].deleted_at /\ r \notin DOMAIN trashD
      /\ (resp.op = "POST /doc/:id/restore" /\ resp.status = 200
            /\ resp'.op = "POST /doc/:id/restore" /\ d = resp.did)
           => resp'.status = 404

C8_DeleteRestoreRoundTrip == [][C8_Step]_vars

\* a document was restored with the body it was created with
C8_Witness ==
  /\ resp.op = "POST /doc/:id/restore"
  /\ resp.status = 200
  /\ resp.did \in DOMAIN docs
  /\ ~docs[resp.did].deleted_at
  /\ docs[resp.did].body_md = BodyX
  /\ resp.did \notin DOMAIN trashD

\* C9 (SpecProj): DELETE /projects/:id on a stored project answers 412 when
\* x-confirm-name is absent or is not the project's name, and otherwise 409 when
\* the project has a non-deleted document and cascade is not requested; in both
\* cases db.projects, db.docs and both trash maps stay as they were, whether or not
\* purge is requested.
C9_Step ==
  LET p == resp'.pid
      keeps == projects' = projects /\ docs' = docs /\ trashP' = trashP /\ trashD' = trashD
  IN  (resp'.op = "DELETE /projects/:id" /\ p \in DOMAIN projects) =>
        IF resp'.name = NoName \/ resp'.name # projects[p].name
          THEN resp'.status = 412 /\ keeps
        ELSE IF (\E d \in DOMAIN docs : docs[d].project_id = p /\ ~docs[d].deleted_at)
                /\ ~resp'.cascade
          THEN resp'.status = 409 /\ keeps
        ELSE resp'.status = 200

C9_DeleteProjectRefusals == [][C9_Step]_vars

\* a purge with the right name was refused because the project has a document
C9_Witness ==
  /\ resp.op = "DELETE /projects/:id"
  /\ resp.status = 409
  /\ resp.purge
  /\ resp.pid \in DOMAIN projects
  /\ \E d \in DOMAIN docs : docs[d].project_id = resp.pid /\ ~docs[d].deleted_at

----------------------------------------------------------------------------
(* Part B: the Postgres server, server.mjs v2.6.3-pg.  The db handle offers   *)
(* only _pool (none of the optional adapter methods), so every route runs its *)
(* own SQL.  A row of projects or docs has the fields of Part A; deleted_by   *)
(* stays empty.  tags and meta go through JSON.stringify and a json column,   *)
(* which gives back the value that was sent.                                  *)

\* what the routes of server.mjs never touch
mjsKeep == <<trashP, trashD, DEFAULT_PROJECT_ID, ALLOW_AUTOCONFIRM, preDelete, dbReady,
             pgVars, stream, old>>

mjsSame == UNCHANGED <<memVars, dbReady, pgVars, stream, old>>

\* res.status(...).json(...) of server.mjs
MjsReply(op, status, pid, did) == [Reply(op, status, pid, did) EXCEPT !.srv = "pg"]

\* select ... from projects where lower(name)=lower($1) and deleted_at is null
mjsLiveByName(name) ==
  {i \in DOMAIN projects :
     toLowerCase(projects[i].name) = toLowerCase(name) /\ ~projects[i].deleted_at}

\* the rows confirm looks at: where id=$1 / lower(name)=lower($1) / slug=$1
mjsConfirmHits(id, name, slug) ==
  IF id # 0 THEN {i \in DOMAIN projects : i = id}
  ELSE IF name # NoName
    THEN {i \in DOMAIN projects : toLowerCase(projects[i].name) = toLowerCase(name)}
  ELSE IF slug # <<>> THEN {i \in DOMAIN projects : projects[i].slug = slug}
  ELSE {}

\* Faulty variant of mjsNotConfirmed: the negation of confirmed is lost.
mjsNotConfirmed_NoNegation(proj) ==
  proj.require_confirmation /\ proj.confirmed /\ ~ALLOW_AUTOCONFIRM

\* proj.require_confirmation && !proj.confirmed && !ALLOW_AUTOCONFIRM
mjsNotConfirmed(proj) == proj.require_confirmation /\ ~proj.confirmed /\ ~ALLOW_AUTOCONFIRM

\* select * from docs where id=$1 and project_id=$2 and deleted_at is null
mjsDocFound(ds, id, p) == id \in DOMAIN ds /\ ds[id].project_id = p /\ ~ds[id].deleted_at

MjsPostProjects(name, kind, parent_id) ==
  LET op == "POST /projects"
  IN  IF ~dbReady
        THEN resp' = MjsReply(op, 500, 0, 0) /\ mjsSame
      ELSE IF name = NoName
        THEN resp' = MjsReply(op, 400, 0, 0) /\ mjsSame
      ELSE IF mjsLiveByName(name) # {}
        THEN /\ resp' = [MjsReply(op, 409, 0, 0) EXCEPT !.name = name]
             /\ mjsSame
      ELSE /\ nextPid <= MaxProjects
           /\ projects' = Put(projects, nextPid, newProject(name, kind, parent_id))
           /\ nextPid' = nextPid + 1
           /\ resp' = [MjsReply(op, 200, nextPid, 0) EXCEPT !.name = name]
           /\ UNCHANGED <<docs, nextDid>> /\ UNCHANGED mjsKeep

\* limit 1 without order by: any of the rows that match
MjsConfirm(id, name, slug) ==
  LET op == "POST /projects/confirm"
      hits == mjsConfirmHits(id, name, slug)
  IN  IF ~dbReady
        THEN resp' = MjsReply(op, 500, 0, 0) /\ mjsSame
      ELSE IF hits = {}
        THEN resp' = MjsReply(op, 404, id, 0) /\ mjsSame
      ELSE \E p \in hits :
             /\ projects' = [projects EXCEPT ![p].confirmed = TRUE,
                                             ![p].require_confirmation = FALSE]
             /\ resp' = MjsReply(op, 200, p, 0)
             /\ UNCHANGED <<docs, nextPid, nextDid>> /\ UNCHANGED mjsKeep

\* the three checks the write routes share; 0 when all pass for project row p
mjsChecks(missing, hits, p) ==
  IF missing THEN 400
  ELSE IF hits = {} THEN 404
  ELSE IF mjsNotConfirmed(projects[p]) THEN 412
  ELSE 0

MjsPostDoc(project_name, doc_type, title, body_md, tags, meta) ==
  LET op == "POST /doc"
      a == [project_name |-> project_name, doc_type |-> doc_type, title |-> title,
            items |-> <<>>]
      hits == mjsLiveByName(project_name)
      missing == project_name = NoName \/ doc_type = "" \/ title = NoTitle
  IN  IF ~dbReady
        THEN resp' = MjsReply(op, 500, 0, 0) /\ mjsSame
      ELSE \E p \in IF missing \/ hits = {} THEN {0} ELSE hits :
             LET st == mjsChecks(missing, hits, p)
             IN  IF st # 0
                   THEN /\ resp' = [MjsReply(op, st, p, 0) EXCEPT !.arg = a]
                        /\ mjsSame
                 ELSE /\ nextDid <= MaxDocs
                      /\ docs' = Put(docs, nextDid,
                                     newDoc(nextDid, p, doc_type, title, body_md, tags, meta))
                      /\ nextDid' = nextDid + 1
                      /\ resp' = [MjsReply(op, 200, p, nextDid) EXCEPT !.arg = a]
                      /\ UNCHANGED <<projects, nextPid>> /\ UNCHANGED mjsKeep

\* the loop of POST /lyra/ingest over the items, on (docs, next fresh id)
RECURSIVE mjsIngestLoop(_, _, _, _)
mjsIngestLoop(items, ds, nd, p) ==
  IF items = <<>> THEN [docs |-> ds, nextDid |-> nd]
  ELSE LET item == Head(items)
       IN  IF item.doc_type = "" \/ item.title = NoTitle
             THEN mjsIngestLoop(Tail(items), ds, nd, p)
           ELSE IF item.id # 0 /\ mjsDocFound(ds, item.id, p)
             THEN mjsIngestLoop(Tail(items),
                    [ds EXCEPT ![item.id] =
                       [@ EXCEPT !.doc_type = item.doc_type, !.title = item.title,
                                 !.body_md = item.body_md, !.tags = item.tags,
                                 !.meta = item.meta]],
                    nd, p)
           ELSE mjsIngestLoop(Tail(items),
                  Put(ds, nd, newDoc(nd, p, item.doc_type, item.title, item.body_md,
                                     item.tags, item.meta)),
                  nd + 1, p)

MjsIngest(project_name, items) ==
  LET op == "POST /lyra/ingest"
      a == [project_name |-> project_name, doc_type |-> "", title |-> NoTitle,
            items |-> items]
      hits == mjsLiveByName(project_name)
      missing == project_name = NoName \/ Len(items) = 0
  IN  IF ~dbReady
        THEN resp' = MjsReply(op, 500, 0, 0) /\ mjsSame
      ELSE \E p \in IF missing \/ hits = {} THEN {0} ELSE hits :
             LET st == mjsChecks(missing, hits, p)
                 out == mjsIngestLoop(items, docs, nextDid, p)
             IN  IF st # 0
                   THEN /\ resp' = [MjsReply(op, st, p, 0) EXCEPT !.arg = a]
                        /\ mjsSame
                 ELSE /\ out.nextDid <= MaxDocs + 1
                      /\ docs' = out.docs
                      /\ nextDid' = out.nextDid
                      /\ resp' = [MjsReply(op, 200, p, 0) EXCEPT !.arg = a]
                      /\ UNCHANGED <<projects, nextPid>> /\ UNCHANGED mjsKeep

MjsPasteSave(project_name, docMode, sceneWriteMode, id, doc_type, title, body_md, tags, meta) ==
  LET op == "POST /lyra/paste-save"
      a == [project_name |-> project_name, doc_type |-> doc_type, title |-> title,
            items |-> <<>>]
      hits == mjsLiveByName(project_name)
      missing == project_name = NoName \/ doc_type = "" \/ title = NoTitle
      R(st, p) == [MjsReply(op, st, p, id) EXCEPT !.arg = a]
  IN  IF ~dbReady
        THEN resp' = MjsReply(op, 500, 0, 0) /\ mjsSame
      ELSE \E p \in IF missing \/ hits = {} THEN {0} ELSE hits :
             LET st == mjsChecks(missing, hits, p)
             IN  IF st # 0
                   THEN resp' = R(st, p) /\ mjsSame
                 ELSE IF docMode = "update"
                   THEN IF id = 0
                          THEN resp' = R(400, p) /\ mjsSame
                        ELSE IF ~mjsDocFound(docs, id, p)
                          THEN resp' = R(404, p) /\ mjsSame
                        ELSE LET nextBody == IF sceneWriteMode = "append"
                                               THEN docs[id].body_md \o <<"\n">> \o body_md
                                             ELSE body_md
                             IN  /\ Len(nextBody) <= MaxBodyLen
                                 /\ docs' = [docs EXCEPT ![id] =
                                               [@ EXCEPT !.doc_type = doc_type, !.title = title,
                                                         !.body_md = nextBody, !.tags = tags,
                                                         !.meta = meta]]
                                 /\ resp' = R(200, p)
                                 /\ UNCHANGED <<projects, nextPid, nextDid>> /\ UNCHANGED mjsKeep
                 ELSE /\ nextDid <= MaxDocs
                      /\ docs' = Put(docs, nextDid,
                                     newDoc(nextDid, p, doc_type, title, body_md, tags, meta))
                      /\ nextDid' = nextDid + 1
                      /\ resp' = [R(200, p) EXCEPT !.did = nextDid]
                      /\ UNCHANGED <<projects, nextPid>> /\ UNCHANGED mjsKeep

\* q.tags ? String(q.tags).split(',').map(s => s.trim()).filter(Boolean) : []
mjsWantTags(query) == IF query.tags # <<>> THEN trimAll(splitComma(query.tags)) ELSE <<>>

\* the filter callback of the tags filter of GET /lyra/read for one row
mjsTagPass(d, query) ==
  LET wantTags == mjsWantTags(query)
      t == IF d.tags.isArray THEN d.tags.val ELSE <<>>
  IN  IF tagsModeOf(query) = <<"a", "n", "y">>
        THEN \E i \in DOMAIN wantTags : includes(t, wantTags[i])
      ELSE \A i \in DOMAIN wantTags : includes(t, wantTags[i])

mjsTagFilter(items, query) ==
  IF Len(mjsWantTags(query)) = 0 THEN items
  ELSE LET keep(d) == mjsTagPass(d, query) IN SelectSeq(items, keep)

\* title = $n in SQL when ci is not 'true', the normalized comparison after the
\* select when it is; doc_type = $n
mjsTitleAndType(items, query) == titleAndType(items, query)

\* String(d.meta?.[k.slice(5)] ?? '') for a key whose value, when present, is a string
mjsMetaString(m, k) == IF m.isObject /\ k \in DOMAIN m.val THEN m.val[k] ELSE <<>>

\* metaPairs.every(([k, v]) => String(d.meta?.[k.slice(5)] ?? '') === String(v))
mjsMetaFilter(items, query) ==
  LET keep(d) == \A i \in DOMAIN query.meta :
                   mjsMetaString(d.meta, query.meta[i][1]) = query.meta[i][2]
  IN  IF Len(query.meta) = 0 THEN items ELSE SelectSeq(items, keep)

\* the rows GET /lyra/read of server.mjs answers with for project p (no id given)
mjsReadFound(p, query) ==
  mjsMetaFilter(mjsTagFilter(mjsTitleAndType(docList(visibleIn(p)), query), query), query)

MjsLyraRead(project_name, id, query) ==
  LET op == "GET /lyra/read"
      hits == mjsLiveByName(project_name)
      R(st, p) == [MjsReply(op, st, p, id) EXCEPT !.arg = query]
  IN  /\ mjsSame
      /\ IF ~dbReady THEN resp' = MjsReply(op, 500, 0, 0)
         ELSE IF project_name = NoName THEN resp' = R(400, 0)
         ELSE IF hits = {} THEN resp' = R(404, 0)
         ELSE \E p \in hits :
                LET found == mjsReadFound(p, query)
                IN  IF id # 0
                      THEN resp' = IF mjsDocFound(docs, id, p)
                                     THEN [R(200, p) EXCEPT !.ret = {id}] ELSE R(404, p)
                    ELSE IF Len(found) = 0 THEN resp' = R(404, p)
                    ELSE resp' = [R(200, p) EXCEPT !.ret = idsOf(found)]

\* GET /doc of server.mjs: every live row of the project, no filter on tags
MjsGetDocList(project_name, query) ==
  LET op == "GET /doc"
      hits == mjsLiveByName(project_name)
      R(st, p) == [MjsReply(op, st, p, 0) EXCEPT !.arg = query]
  IN  /\ mjsSame
      /\ IF ~dbReady THEN resp' = MjsReply(op, 500, 0, 0)
         ELSE IF project_name = NoName THEN resp' = R(400, 0)
         ELSE IF hits = {} THEN resp' = R(404, 0)
         ELSE \E p \in hits : resp' = [R(200, p) EXCEPT !.ret = visibleIn(p)]

\* the projects table at start: empty, or holding one soft-deleted project
mjsDeletedRow == [newProject(<<"a">>, "book", 0) EXCEPT !.deleted_at = TRUE]

InitMjs ==
  /\ projects \in {<<>>, 1 :> mjsDeletedRow}
  /\ nextPid = Cardinality(DOMAIN projects) + 1
  /\ docs = <<>>
  /\ nextDid = 1
  /\ trashP = <<>> /\ trashD = <<>> /\ preDelete = <<>>
  /\ DEFAULT_PROJECT_ID = 0
  /\ ALLOW_AUTOCONFIRM \in BOOLEAN
  /\ dbReady \in BOOLEAN
  /\ resp = NoReply
  /\ misc = <<>> /\ clock = 0 /\ job = <<>> /\ written = <<>>
  /\ stream = NoStream
  /\ old = OldStart(<<>>)

MjsNames == NameSet \cup {<<"A">>, NoName}

NextMjs ==
  \/ \E name \in MjsNames : MjsPostProjects(name, "book", 0)
  \/ \E id \in PIDs : MjsConfirm(id, NoName, <<>>)
  \/ \E name \in NameSet : MjsConfirm(0, name, <<>>)
  \/ \E slug \in SlugSet \cup {<<>>} : MjsConfirm(0, NoName, slug)
  \/ \E name \in MjsNames, doc_type \in {"", "scene"}, title \in {NoTitle, TitleT} :
       MjsPostDoc(name, doc_type, title, BodyX, Arr(<<TagX>>), EmptyMeta)
  \/ \E name \in MjsNames, n \in 0..1, item \in ItemIn :
       MjsIngest(name, IF n = 0 THEN <<>> ELSE <<item>>)
  \/ \E name \in MjsNames, docMode \in {"create", "update"}, mode \in {"overwrite", "append"},
        id \in DIDs \cup {0}, title \in {NoTitle, TitleT} :
       MjsPasteSave(name, docMode, mode, id, "scene", title, BodyY, Arr(<<TagX>>), EmptyMeta)
  \/ \E name \in MjsNames, id \in DIDs \cup {0}, query \in QueryIn :
       MjsLyraRead(name, id, query)

SpecMjs == InitMjs /\ [][NextMjs]_vars

MjsWriteOps == {"POST /doc", "POST /lyra/paste-save", "POST /lyra/ingest"}

\* the required fields of a write request as the claim lists them
mjsMissingFields(op, a) ==
  IF op = "POST /lyra/ingest" THEN a.project_name = NoName \/ Len(a.items) = 0
  ELSE a.project_name = NoName \/ a.doc_type = "" \/ a.title = NoTitle

\* C6 (SpecMjs): with the db handle ready, POST /doc, POST /lyra/paste-save and
\* POST /lyra/ingest answer 400 when a required field is missing, else 404 when no
\* live project has the name (compared case-insensitively), else 412 when that
\* project requires confirmation, is not confirmed and ALLOW_AUTOCONFIRM is off;
\* in these three cases no row of docs or projects is inserted or changed; in
\* every other case the request passes the three checks; and each request is
\* answered with exactly one status.
C6_Step ==
  LET op == resp'.op
      a == resp'.arg
      hits == mjsLiveByName(a.project_name)
      keeps == docs' = docs /\ projects' = projects
  IN  (op \in MjsWriteOps /\ dbReady) =>
        /\ resp'.status \in {200, 400, 404, 412}
        /\ IF mjsMissingFields(op, a) THEN resp'.status = 400 /\ keeps
           ELSE IF hits = {} THEN resp'.status = 404 /\ keeps
           ELSE IF \A p \in hits : /\ projects[p].require_confirmation
                                   /\ ~projects[p].confirmed
                                   /\ ~ALLOW_AUTOCONFIRM
             THEN resp'.status = 412 /\ keeps
           ELSE resp'.status # 412 /\ resp'.pid \in hits

C6_CheckOrder == [][C6_Step]_vars

\* a request with a missing title for a project that does not exist got 400,
\* while a document is stored
C6_Witness ==
  /\ dbReady
  /\ resp.op = "POST /lyra/paste-save"
  /\ resp.status = 400
  /\ resp.arg.title = NoTitle
  /\ resp.arg.project_name # NoName
  /\ mjsLiveByName(resp.arg.project_name) = {}
  /\ docs # <<>>

----------------------------------------------------------------------------
(* Part C: the tag filters on drawn documents.  The store holds one confirmed *)
(* project whose documents carry every shape of tags; the read routes of both *)
(* servers are asked with every shape of tag=, tags= and tagsMode=.           *)

TagVals == {Arr(<<>>), Arr(<<TagX>>), Arr(<<TagY>>), Arr(<<TagX, TagY>>), NotArr(TagX)}

TagParamIn == {NoTag, NotArr(TagX), Arr(<<TagX, TagY>>), Arr(<<TagY, TagY>>)}
TagsTextIn == {<<>>, <<"x">>, <<"x", ",", "y">>, <<" ", "y", " ", ",">>, <<",">>}
TagsModeIn == {<<>>, <<"a", "l", "l">>, <<"a", "n", "y">>, <<"A", "N", "Y">>}

TagQueryIn ==
  {[NoQuery EXCEPT !.tag = t, !.tags = ts, !.tagsMode = m] :
     t \in TagParamIn, ts \in TagsTextIn, m \in TagsModeIn}

InitTags ==
  /\ projects = 1 :> confirmFields(newProject(<<"a">>, "book", 0))
  /\ nextPid = 2
  /\ \E f \in [DIDs -> TagVals] :
       docs = [i \in DIDs |-> newDoc(i, 1, "scene", TitleT, BodyX, f[i], EmptyMeta)]
  /\ nextDid = MaxDocs + 1
  /\ trashP = <<>> /\ trashD = <<>> /\ preDelete = <<>>
  /\ DEFAULT_PROJECT_ID = 0
  /\ ALLOW_AUTOCONFIRM = FALSE
  /\ dbReady = TRUE
  /\ resp = NoReply
  /\ misc = <<>> /\ clock = 0 /\ job = <<>> /\ written = <<>>
  /\ stream = NoStream
  /\ old = OldStart(<<>>)

NextTags ==
  \/ \E query \in TagQueryIn : GetDocList(ById(1), query) /\ idle
  \/ \E query \in TagQueryIn : LyraRead(ById(1), 0, query) /\ idle
  \/ \E query \in TagQueryIn : MjsLyraRead(<<"a">>, 0, query)
  \/ \E query \in TagQueryIn : MjsGetDocList(<<"a">>, query)

SpecTags == InitTags /\ [][NextTags]_vars

\* the set W of requested tags: every tag= value and every non-empty trimmed
\* piece of tags=
requestedTags(q, withTagParam) ==
  LET pieces == splitComma(q.tags)
  IN  (IF ~withTagParam THEN {}
       ELSE IF q.tag.isArray THEN {q.tag.val[i] : i \in DOMAIN q.tag.val}
       ELSE IF q.tag.val # <<>> THEN {q.tag.val} ELSE {})
      \cup {trim(pieces[i]) : i \in {j \in DOMAIN pieces : trim(pieces[j]) # <<>>}}

\* whether a document must pass for the requested tags W
mustPass(d, W, mode) ==
  LET T == IF d.tags.isArray THEN {d.tags.val[i] : i \in DOMAIN d.tags.val} ELSE {}
  IN  IF W = {} THEN TRUE
      ELSE IF mode = <<"a", "n", "y">> THEN W \cap T # {}
      ELSE W \subseteq T

tagReadDone ==
  /\ resp.op \in {"GET /doc", "GET /lyra/read"}
  /\ resp.status \in {200, 404}
  /\ resp.arg.tagsMode \in {<<>>, <<"a", "l", "l">>, <<"a", "n", "y">>}

\* C5 as stated (SpecTags): on both servers GET /doc and GET /lyra/read return
\* exactly the documents that pass for the set W of all tags requested by tag=
\* and tags=.
C5_AsStated ==
  tagReadDone
    => resp.ret = {i \in DOMAIN docs :
                     mustPass(docs[i], requestedTags(resp.arg, TRUE), resp.arg.tagsMode)}

\* C5 (SpecTags): GET /doc and GET /lyra/read of the in-memory server return
\* exactly the documents of the project that pass for the set W of requested tags
\* (tag= and tags=, duplicates merged): all of them when W is empty, those that
\* hold every tag of W when tagsMode is absent or 'all', those that hold at least
\* one when tagsMode is 'any'; tags that is not an array counts as no tags.
\* GET /lyra/read of server.mjs does the same with W taken from tags= alone, and
\* GET /doc of server.mjs returns every document whatever tags are requested.
C5_TagFilter ==
  tagReadDone
    => LET q == resp.arg
           W == IF resp.srv = "mem" THEN requestedTags(q, TRUE)
                ELSE IF resp.op = "GET /lyra/read" THEN requestedTags(q, FALSE)
                ELSE {}
       IN  resp.ret = {i \in DOMAIN docs : mustPass(docs[i], W, q.tagsMode)}

\* mode 'any' kept a document that holds one of two requested tags, not both
C5_Witness ==
  /\ resp.op = "GET /doc"
  /\ resp.status = 200
  /\ resp.arg.tagsMode = <<"a", "n", "y">>
  /\ resp.arg.tag = Arr(<<TagX, TagY>>)
  /\ \E i \in resp.ret : docs[i].tags = Arr(<<TagY>>)

----------------------------------------------------------------------------
(* Part D: db.pg.mjs, id-suffix variant: createDoc, readDocs, searchDocs and   *)
(* exportProject over the table writing.misc.  misc maps a row id to its row.  *)
(* Every statement runs at a later time than the one before it; a row takes    *)
(* the time of its INSERT as updated_at and ON CONFLICT DO UPDATE leaves it.   *)
(* createDoc is one step per awaited statement.                                *)

\* maxLen = 8000 of splitText and the threshold of createDoc, scaled down
SplitLen == 2
MaxWrites == 2

PgIdIn == {<<"d">>, <<"e", "-", "p">>}
PgBodyIn == {<<"x">>, <<"x", "y", "z">>, <<"y", "z", "x", "y", "z">>}
PgQueryIn == {<<>>, <<"z">>, <<"t">>}

RECURSIVE splitText(_)
splitText(text) ==
  IF Len(text) = 0 THEN <<>>
  ELSE <<SubSeq(text, 1, Min({SplitLen, Len(text)}))>>
         \o splitText(SubSeq(text, SplitLen + 1, Len(text)))

\* String(n) for one decimal digit
digitStr(n) == <<"1", "2", "3", "4", "5", "6", "7", "8", "9">>[n]

\* `${id}-p${idx + 1}`
partId(id, idx) == id \o <<"-", "p">> \o <<digitStr(idx + 1)>>

\* `${payload.title} (Part ${idx + 1})`
partTitle(title, idx) ==
  title \o <<" ", "(", "P", "a", "r", "t", " ">> \o <<digitStr(idx + 1)>> \o <<")">>

\* row.id.includes("-p") ? row.id.split("-p")[0] : row.id
baseIdOf(id) ==
  LET at == {i \in 1..(Len(id) - 1) : id[i] = "-" /\ id[i + 1] = "p"}
  IN  IF at = {} THEN id ELSE SubSeq(id, 1, Min(at) - 1)

\* the loop of mergeParts; grouped lists the merged documents in key order
RECURSIVE mergeLoop(_, _)
mergeLoop(rows, grouped) ==
  IF rows = <<>> THEN grouped
  ELSE LET row == Head(rows)
           baseId == baseIdOf(row.id)
           hit == {i \in DOMAIN grouped : grouped[i].id = baseId}
       IN  IF hit = {}
             THEN mergeLoop(Tail(rows), Append(grouped, [row EXCEPT !.id = baseId]))
           ELSE mergeLoop(Tail(rows),
                          [grouped EXCEPT ![Min(hit)].body = @ \o row.body])

mergeParts(rows) == mergeLoop(rows, <<>>)

\* Faulty variant of upsert: ON CONFLICT (id) DO NOTHING, the first row stays.
upsert_KeepFirst(tbl, id, title, body, now) ==
  IF id \in DOMAIN tbl THEN tbl
  ELSE Put(tbl, id, [id |-> id, title |-> title, body |-> body, updated_at |-> now])

\* INSERT ... ON CONFLICT (id) DO UPDATE SET title, body (tags and meta left out)
upsert(tbl, id, title, body, now) ==
  IF id \in DOMAIN tbl
    THEN [tbl EXCEPT ![id].title = title, ![id].body = body]
  ELSE Put(tbl, id, [id |-> id, title |-> title, body |-> body, updated_at |-> now])

\* s ILIKE '%q%'
ilike(s, q) ==
  \E i \in 0..(Len(s) - Len(q)) :
    toLowerCase(SubSeq(s, i + 1, i + Len(q))) = toLowerCase(q)

\* every order a result set over the rows ids may come in
RECURSIVE Perms(_)
Perms(ids) ==
  IF ids = {} THEN {<<>>}
  ELSE UNION {{<<x>> \o rest : rest \in Perms(ids \ {x})} : x \in ids}

\* ORDER BY updated_at DESC
byUpdatedDesc(order) ==
  \A i, j \in DOMAIN order :
    i < j => misc[order[i]].updated_at >= misc[order[j]].updated_at

rowsIn(order) == [i \in DOMAIN order |-> misc[order[i]]]

PgReply(op, ret, arg) ==
  [Reply(op, 200, 0, 0) EXCEPT !.ret = ret, !.arg = arg, !.srv = "db.pg"]

pgSame == UNCHANGED <<memVars, dbReady, stream, old>>

\* createDoc up to its first await: a body within the limit is one INSERT, a
\* longer one is split and its parts are written one statement at a time
CreateDocBegin(c, id, body) ==
  /\ c \notin DOMAIN job
  /\ Len(written) + Cardinality(DOMAIN job) < MaxWrites
  /\ pgSame
  /\ IF Len(body) > SplitLen
       THEN /\ job' = Put(job, c, [id |-> id, title |-> TitleT, body |-> body,
                                   parts |-> splitText(body), idx |-> 0])
            /\ UNCHANGED <<misc, clock, written, resp>>
     ELSE /\ misc' = upsert(misc, id, TitleT, body, clock + 1)
          /\ clock' = clock + 1
          /\ written' = Append(written, [id |-> id, body |-> body])
          /\ resp' = PgReply("createDoc", <<>>, id)
          /\ UNCHANGED job

\* one turn of the loop over parts: the INSERT of part idx, and the return after
\* the last one
CreateDocPart(c) ==
  /\ c \in DOMAIN job
  /\ pgSame
  /\ LET j == job[c]
         idx == j.idx
     IN  /\ misc' = upsert(misc, partId(j.id, idx), partTitle(j.title, idx),
                           j.parts[idx + 1], clock + 1)
         /\ clock' = clock + 1
         /\ IF idx + 1 < Len(j.parts)
              THEN /\ job' = [job EXCEPT ![c].idx = idx + 1]
                   /\ UNCHANGED <<written, resp>>
            ELSE /\ job' = Remove(job, c)
                 /\ written' = Append(written, [id |-> j.id, body |-> j.body])
                 /\ resp' = PgReply("createDoc", <<>>, j.id)

\* SELECT * FROM writing.misc WHERE 1=1 (no filters, no ORDER BY)
ReadDocs ==
  /\ \E order \in Perms(DOMAIN misc) :
       resp' = PgReply("readDocs", mergeParts(rowsIn(order)), <<>>)
  /\ UNCHANGED pgVars /\ pgSame

SearchDocs(q) ==
  LET hit == {id \in DOMAIN misc : ilike(misc[id].title, q) \/ ilike(misc[id].body, q)}
  IN  /\ \E order \in {o \in Perms(hit) : byUpdatedDesc(o)} :
           resp' = PgReply("searchDocs", mergeParts(rowsIn(order)), q)
      /\ UNCHANGED pgVars /\ pgSame

ExportProject ==
  /\ \E order \in {o \in Perms(DOMAIN misc) : byUpdatedDesc(o)} :
       resp' = PgReply("exportProject", mergeParts(rowsIn(order)), <<>>)
  /\ UNCHANGED pgVars /\ pgSame

InitPg ==
  /\ projects = <<>> /\ docs = <<>>
  /\ nextPid = 1 /\ nextDid = 1
  /\ trashP = <<>> /\ trashD = <<>> /\ preDelete = <<>>
  /\ DEFAULT_PROJECT_ID = 0
  /\ ALLOW_AUTOCONFIRM = FALSE
  /\ dbReady = TRUE
  /\ resp = NoReply
  /\ misc = <<>> /\ clock = 0 /\ job = <<>> /\ written = <<>>
  /\ stream = NoStream
  /\ old = OldStart(<<>>)

(* SpecPg: one caller, so a createDoc starts only when none is under way. *)
NextPg ==
  \/ \E id \in PgIdIn, body \in PgBodyIn : DOMAIN job = {} /\ CreateDocBegin(1, id, body)
  \/ CreateDocPart(1)
  \/ ExportProject
  \/ \E q \in PgQueryIn : SearchDocs(q)
  \/ ReadDocs

SpecPg == InitPg /\ [][NextPg]_vars

\* C4 (SpecPg): after one finished createDoc with a body longer than the split
\* length and nothing else written, readDocs, exportProject and a searchDocs whose
\* query matches the document each return exactly one document, with the base id
\* and with the body that was written.
C4_OversizedRoundTrip ==
  (/\ Len(written) = 1 /\ DOMAIN job = {}
   /\ Len(written[1].body) > SplitLen
   /\ resp.srv = "db.pg"
   /\ resp.op \in {"readDocs", "exportProject", "searchDocs"}
   /\ (resp.op = "searchDocs"
         => ilike(written[1].body, resp.arg) \/ ilike(TitleT, resp.arg)))
    => /\ Len(resp.ret) = 1
       /\ resp.ret[1].id = written[1].id
       /\ resp.ret[1].body = written[1].body

----------------------------------------------------------------------------
(* Part E: the streaming reads, GET /read-stream of server.mjs and             *)
(* GET /lyra/read-stream of server.2.1.0.js.  stream is the one open response: *)
(* the text and idx of the closure, whether the interval is armed, and the     *)
(* events written so far.  docs stands for the docs table of the first and for *)
(* db.docs of the second.                                                      *)

\* const chunkSize = 512 (server.mjs) and 256 (server.2.1.0.js), scaled down
ChunkSizeMjs == 2
ChunkSizeOld == 1

sseStart(id, title) == [event |-> "start", id |-> id, title |-> title, chunk |-> <<>>, bytes |-> 0]
sseDelta(chunk) == [event |-> "delta", id |-> 0, title |-> <<>>, chunk |-> chunk, bytes |-> 0]
sseDone(bytes) == [event |-> "done", id |-> 0, title |-> <<>>, chunk |-> <<>>, bytes |-> bytes]
sseError == [event |-> "error", id |-> 0, title |-> <<>>, chunk |-> <<>>, bytes |-> 0]

\* Faulty variant of streamDone: the tick at idx = text.length still writes a delta.
streamDone_Strict(idx, len) == idx > len

\* if (idx >= text.length)
streamDone(idx, len) == idx >= len

\* String(doc.body_md || '')
streamText(doc) == IF doc.body_md = <<>> THEN <<>> ELSE doc.body_md

\* send('start', ...) and setInterval(...)
openStream(srv, doc, chunkSize) ==
  [srv |-> srv, did |-> doc.id, body0 |-> doc.body_md, text |-> streamText(doc),
   chunkSize |-> chunkSize, idx |-> 0, timer |-> TRUE, ended |-> FALSE,
   events |-> <<sseStart(doc.id, doc.title)>>]

streamSame == UNCHANGED <<memVars, dbReady, pgVars, old>>

\* GET /read-stream of server.mjs, the document named by id
ReadStream(project_name, id) ==
  LET op == "GET /read-stream"
      hits == mjsLiveByName(project_name)
  IN  /\ ~stream.timer
      /\ streamSame
      /\ IF ~dbReady THEN resp' = MjsReply(op, 500, 0, 0) /\ UNCHANGED stream
         ELSE IF project_name = NoName
           THEN resp' = MjsReply(op, 400, 0, id) /\ UNCHANGED stream
         ELSE IF hits = {} THEN resp' = MjsReply(op, 404, 0, id) /\ UNCHANGED stream
         ELSE \E p \in hits :
                IF id = 0 THEN resp' = MjsReply(op, 400, p, id) /\ UNCHANGED stream
                ELSE IF ~mjsDocFound(docs, id, p)
                  THEN resp' = MjsReply(op, 404, p, id) /\ UNCHANGED stream
                ELSE /\ stream' = openStream("pg", docs[id], ChunkSizeMjs)
                     /\ resp' = MjsReply(op, 200, p, id)

\* GET /lyra/read-stream of server.2.1.0.js; id 0 asks for the first document
LyraReadStream(ref, id) ==
  LET op == "GET /lyra/read-stream"
      p == resolveProjectId(ref)
      candidates == IF id # 0
                      THEN (IF mjsDocFound(docs, id, p) THEN <<docs[id]>> ELSE <<>>)
                    ELSE docList(visibleIn(p))
  IN  /\ ~stream.timer
      /\ streamSame
      /\ IF p = 0 THEN resp' = Reply(op, 400, 0, id) /\ UNCHANGED stream
         ELSE IF Len(candidates) = 0
           THEN /\ stream' = [NoStream EXCEPT !.srv = "mem", !.ended = TRUE,
                                              !.events = <<sseError>>]
                /\ resp' = Reply(op, 200, p, id)
         ELSE /\ stream' = openStream("mem", candidates[1], ChunkSizeOld)
              /\ resp' = Reply(op, 200, p, candidates[1].id)

\* one firing of the interval callback
StreamTick ==
  /\ stream.timer
  /\ streamSame /\ UNCHANGED resp
  /\ LET text == stream.text
         idx == stream.idx
     IN  IF streamDone(idx, Len(text))
           THEN stream' = [stream EXCEPT !.timer = FALSE, !.ended = TRUE,
                                         !.events = Append(@, sseDone(Len(text)))]
         ELSE stream' = [stream EXCEPT
                           !.idx = idx + stream.chunkSize,
                           !.events = Append(@, sseDelta(
                              SubSeq(text, idx + 1,
                                     Min({idx + stream.chunkSize, Len(text)}))))]

StreamBodyIn == UNION {[1..n -> {"x", "y"}] : n \in 0..MaxBodyLen}

InitStream ==
  /\ projects = 1 :> confirmFields(newProject(<<"a">>, "book", 0))
  /\ nextPid = 2
  /\ \E b \in StreamBodyIn :
       docs = 1 :> newDoc(1, 1, "scene", TitleT, b, Arr(<<>>), EmptyMeta)
  /\ nextDid = 2
  /\ trashP = <<>> /\ trashD = <<>> /\ preDelete = <<>>
  /\ DEFAULT_PROJECT_ID = 0
  /\ ALLOW_AUTOCONFIRM = FALSE
  /\ dbReady = TRUE
  /\ resp = NoReply
  /\ misc = <<>> /\ clock = 0 /\ job = <<>> /\ written = <<>>
  /\ stream = NoStream
  /\ old = OldStart(<<>>)

NextStream ==
  \/ \E name \in {<<"a">>, <<"b">>, NoName}, id \in 0..2 : ReadStream(name, id)
  \/ \E h \in 1..2, id \in 0..2 : LyraReadStream(ByHeader(h), id)
  \/ StreamTick
  \/ \E b \in {BodyY, <<>>} :
       MjsPasteSave(<<"a">>, "update", "overwrite", 1, "scene", TitleT, b,
                    Arr(<<>>), EmptyMeta)

SpecStream == InitStream /\ [][NextStream]_vars

\* the interval fires again as long as it is armed
SpecStreamFair == SpecStream /\ WF_vars(StreamTick)

\* the event sequence of a whole stream of text
streamExpected(id, title, text, chunkSize) ==
  LET len == Len(text)
      n == (len + chunkSize - 1) \div chunkSize
  IN  <<sseStart(id, title)>>
        \o [k \in 1..n |->
              sseDelta(SubSeq(text, (k - 1) * chunkSize + 1, Min({k * chunkSize, len})))]
        \o <<sseDone(len)>>

isPrefix(a, b) == Len(a) <= Len(b) /\ SubSeq(b, 1, Len(a)) = a

streamShape ==
  stream.timer \/ (stream.ended /\ stream.did # 0)
    => LET e == streamExpected(stream.did, TitleT, stream.body0, stream.chunkSize)
       IN  /\ isPrefix(stream.events, e)
           /\ stream.ended <=> stream.events = e
           /\ stream.timer <=> ~stream.ended

\* C10 (SpecStreamFair): for a found document the events written are at every
\* moment a prefix of start, ceil(len/chunkSize) deltas that spell the body as
\* read at the start, done with bytes = len; the response is ended and the
\* timer cleared exactly when the whole sequence is out, and every stream that
\* was opened gets there.
C10_StreamSequence == [](streamShape) /\ (stream.timer ~> stream.ended)

\* a three-character body went out in two deltas at chunk size two and ended,
\* while the stored body was overwritten midway
C10_Witness ==
  /\ stream.ended /\ stream.srv = "pg"
  /\ Len(stream.body0) = 3
  /\ Len(stream.events) = 4
  /\ docs[stream.did].body_md # stream.body0

----------------------------------------------------------------------------
(* Part F: server.old.js (build 1.5.0).  old holds API_TOKEN, the session     *)
(* default project and the tables projects, scenes, documents and embeddings. *)
(* A request runs alone; the calls to the embeddings and chat API succeed.    *)
(* A scene is keyed by <<project, chapterId, sceneId>>.                       *)

\* maxChars = 12000 of chunkText and of maxChunk, scaled down
DefaultMaxChunk == 6

\* \s of the regular expressions and of String.prototype.trim
isWs(c) == c \in {" ", "\n"}

RECURSIVE wsTrimStart(_)
wsTrimStart(s) == IF s # <<>> /\ isWs(Head(s)) THEN wsTrimStart(Tail(s)) ELSE s

RECURSIVE wsTrimEnd(_)
wsTrimEnd(s) == IF s # <<>> /\ isWs(s[Len(s)]) THEN wsTrimEnd(SubSeq(s, 1, Len(s) - 1)) ELSE s

wsTrim(s) == wsTrimEnd(wsTrimStart(s))

\* the index where a match of /\n\s*\n/ that starts at i ends; 0 when none does
sepEnd(s, i) ==
  IF s[i] # "\n" THEN 0
  ELSE LET run == {r \in i..Len(s) : \A k \in (i + 1)..r : isWs(s[k])}
           ends == {k \in run : k > i /\ s[k] = "\n"}
       IN  IF ends = {} THEN 0 ELSE CHOOSE k \in ends : \A m \in ends : m <= k

\* String(text).split(/\n\s*\n/g)
RECURSIVE splitParas(_)
splitParas(s) ==
  LET at == {i \in DOMAIN s : sepEnd(s, i) # 0}
  IN  IF at = {} THEN <<s>>
      ELSE <<SubSeq(s, 1, Min(at) - 1)>>
             \o splitParas(SubSeq(s, sepEnd(s, Min(at)) + 1, Len(s)))

\* for (let i = 0; i < p.length; i += maxChars) chunks.push(p.slice(i, i + maxChars))
RECURSIVE slices(_, _)
slices(p, maxChars) ==
  IF Len(p) = 0 THEN <<>>
  ELSE <<SubSeq(p, 1, Min({maxChars, Len(p)}))>>
         \o slices(SubSeq(p, maxChars + 1, Len(p)), maxChars)

ParaSep == <<"\n", "\n">>

\* the loop of chunkText over the paragraphs
RECURSIVE chunkLoop(_, _, _, _)
chunkLoop(paras, buf, chunks, maxChars) ==
  IF paras = <<>> THEN (IF buf # <<>> THEN Append(chunks, buf) ELSE chunks)
  ELSE LET p == Head(paras)
           candidate == IF buf # <<>> THEN buf \o ParaSep \o p ELSE p
           flushed == IF buf # <<>> THEN Append(chunks, buf) ELSE chunks
       IN  IF Len(candidate) <= maxChars
             THEN chunkLoop(Tail(paras), candidate, chunks, maxChars)
           ELSE IF Len(p) > maxChars
             THEN chunkLoop(Tail(paras), <<>>, flushed \o slices(p, maxChars), maxChars)
           ELSE chunkLoop(Tail(paras), p, flushed, maxChars)

chunkText(text, maxChars) == chunkLoop(splitParas(text), <<>>, <<>>, maxChars)

\* Number(maxChunk) || 12000
maxChunkOf(maxChunk) == IF maxChunk = 0 THEN DefaultMaxChunk ELSE maxChunk

\* one write of a scene row: INSERT ... ON CONFLICT DO UPDATE, after the SELECT of
\* the previous content when appending
sceneWrite(scenes, key, content, append) ==
  LET prev == IF key \in DOMAIN scenes THEN scenes[key] ELSE <<>>
  IN  Put(scenes, key, IF append /\ prev # <<>> THEN prev \o ParaSep \o content ELSE content)

\* the loop over chunks: the first overwrites, the others append
RECURSIVE sceneWriteChunks(_, _, _, _)
sceneWriteChunks(scenes, key, chunks, i) ==
  IF i > Len(chunks) THEN scenes
  ELSE sceneWriteChunks(sceneWrite(scenes, key, chunks[i], i > 1), key, chunks, i + 1)

MaxSceneLen == 6

\* headerToken || xToken || qToken, each already trimmed ('' when not sent)
presentedToken(a) ==
  IF a.bearer # <<>> THEN a.bearer ELSE IF a.x # <<>> THEN a.x ELSE a.q

\* requireAuth: TRUE stands for next(), FALSE for the 401 answer
requireAuth(a) ==
  IF old.API_TOKEN = <<>> THEN TRUE
  ELSE presentedToken(a) # <<>> /\ presentedToken(a) = old.API_TOKEN

NoAuth == [bearer |-> <<>>, x |-> <<>>, q |-> <<>>]

\* req.body / req.query of the routes of server.old.js; 0, "" and <<>> are absent
NoReq ==
  [project_id |-> 0, project_name |-> <<>>, name |-> <<>>, project |-> <<>>,
   chapterId |-> 0, sceneId |-> 0, content |-> <<>>, mode |-> "overwrite", maxChunk |-> 0,
   title |-> <<>>, body_md |-> <<>>, doc_type |-> "", document_id |-> 0,
   saveToScenes |-> TRUE, saveToDocuments |-> TRUE, sceneWriteMode |-> "auto",
   docMode |-> "upsert"]

OldReply(op, status, a, r) ==
  [Reply(op, status, 0, 0) EXCEPT !.srv = "old", !.arg = [auth |-> a, req |-> r]]

OldOut(status, o) == [status |-> status, old |-> o]

\* SELECT id FROM projects WHERE lower(name) = lower($1)
oldByName(name) ==
  {i \in DOMAIN old.projects : toLowerCase(old.projects[i]) = toLowerCase(name)}

\* resolveProjectId: the ids it may return; empty when it throws
oldResolve(project_id, project_name) ==
  LET byTrim(n) == {i \in DOMAIN old.projects :
                      trim(toLowerCase(old.projects[i])) = trim(toLowerCase(n))}
  IN  IF project_id # 0 THEN {project_id}
      ELSE IF project_name # <<>> THEN byTrim(project_name)
      ELSE IF old.defaultProjectId # 0 THEN {old.defaultProjectId}
      ELSE IF old.defaultProjectName # <<>> THEN byTrim(old.defaultProjectName)
      ELSE {}

\* body_md.split(/\n\s*\n/).map(s => s.trim()).filter(Boolean), or [body_md]; one
\* embeddings row per chunk
embedRows(pid, document_id, body_md) ==
  LET nonEmptyPara(x) == x # <<>>
      split == splitParas(body_md)
      paragraphs == SelectSeq([i \in DOMAIN split |-> wsTrim(split[i])], nonEmptyPara)
      chunks == IF Len(paragraphs) > 0 THEN paragraphs ELSE <<body_md>>
  IN  {[project_id |-> pid, document_id |-> document_id, chunk_no |-> i,
        chunk_text |-> chunks[i]] : i \in DOMAIN chunks}

\* documents is kept in the order of updated_at; the row at index i, rewritten
\* as row, becomes the newest
docTouch(documents, i, row) ==
  SubSeq(documents, 1, i - 1) \o SubSeq(documents, i + 1, Len(documents)) \o <<row>>

\* WHERE project_id = $1 AND title = $2 ORDER BY updated_at DESC LIMIT 1; 0 for none
latestByTitle(documents, pid, title) ==
  LET hit == {i \in DOMAIN documents :
                documents[i].project_id = pid /\ documents[i].title = title}
  IN  IF hit = {} THEN 0 ELSE CHOOSE i \in hit : \A k \in hit : k <= i

dropEmbeddings(embeddings, document_id) ==
  {e \in embeddings : e.document_id # document_id}

\* new body for the document at index i: UPDATE, DELETE FROM embeddings, re-embed
oldRewrite(o, i, title, body_md) ==
  LET d == o.documents[i]
      row == [d EXCEPT !.title = IF title # <<>> THEN title ELSE @,
                       !.body_md = IF body_md # <<>> THEN body_md ELSE @]
  IN  [o EXCEPT !.documents = docTouch(@, i, row),
                !.embeddings = IF body_md # <<>>
                                 THEN dropEmbeddings(@, d.id)
                                        \cup embedRows(d.project_id, d.id, body_md)
                               ELSE @]

\* INSERT INTO documents ... RETURNING id, then the embeddings of the body
oldInsertDoc(o, pid, title, body_md) ==
  LET id == Len(o.documents) + 1
  IN  [o EXCEPT !.documents = Append(@, [id |-> id, project_id |-> pid, title |-> title,
                                         body_md |-> body_md]),
                !.embeddings = @ \cup embedRows(pid, id, body_md)]

\* upsertDocumentByTitle; ok = FALSE stands for the thrown Error
upsertDocumentByTitle(o, pid, title, body_md, docMode) ==
  LET i == latestByTitle(o.documents, pid, title)
  IN  IF i # 0
        THEN (IF docMode = "create" THEN [ok |-> FALSE, old |-> o]
              ELSE [ok |-> TRUE, old |-> oldRewrite(o, i, <<>>, body_md)])
      ELSE IF docMode = "update" THEN [ok |-> FALSE, old |-> o]
      ELSE [ok |-> TRUE, old |-> oldInsertDoc(o, pid, title, body_md)]

oldSetDefault(r) ==
  IF r.project_id = 0 /\ r.project_name = <<>> THEN OldOut(400, old)
  ELSE IF r.project_id # 0
    THEN OldOut(200, [old EXCEPT !.defaultProjectId = r.project_id,
                                 !.defaultProjectName = <<>>])
  ELSE IF oldByName(r.project_name) = {} THEN OldOut(404, old)
  ELSE OldOut(200, [old EXCEPT !.defaultProjectName = r.project_name,
                               !.defaultProjectId = 0])

oldClearDefault ==
  OldOut(200, [old EXCEPT !.defaultProjectId = 0, !.defaultProjectName = <<>>])

oldProject(r) ==
  IF r.name = <<>> THEN OldOut(400, old)
  ELSE IF oldByName(r.name) # {} THEN OldOut(200, old)
  ELSE OldOut(200, [old EXCEPT !.projects =
                      Put(@, Cardinality(DOMAIN old.projects) + 1, r.name)])

oldIngest(r, pids) ==
  IF r.doc_type = "" \/ r.title = <<>> \/ r.body_md = <<>> THEN {OldOut(400, old)}
  ELSE IF pids = {} THEN {OldOut(500, old)}
  ELSE {OldOut(200, oldInsertDoc(old, pid, r.title, r.body_md)) : pid \in pids}

sceneKey(project, r) == <<project, r.chapterId, r.sceneId>>

badContent(content) == wsTrim(content) = <<>>

oldScenesUpsert(r) ==
  IF r.project = <<>> \/ r.chapterId = 0 \/ r.sceneId = 0 THEN OldOut(400, old)
  ELSE IF badContent(r.content) THEN OldOut(400, old)
  ELSE OldOut(200, [old EXCEPT !.scenes =
                      sceneWrite(@, sceneKey(r.project, r), r.content, r.mode = "append")])

oldScenesPaste(r) ==
  IF r.project = <<>> \/ r.chapterId = 0 \/ r.sceneId = 0 THEN OldOut(400, old)
  ELSE IF badContent(r.content) THEN OldOut(400, old)
  ELSE OldOut(200, [old EXCEPT !.scenes =
                      sceneWriteChunks(@, sceneKey(r.project, r),
                                       chunkText(r.content, maxChunkOf(r.maxChunk)), 1)])

oldScenesDelete(r) ==
  IF r.project = <<>> \/ r.chapterId = 0 \/ r.sceneId = 0 THEN OldOut(400, old)
  ELSE IF sceneKey(r.project, r) \notin DOMAIN old.scenes THEN OldOut(404, old)
  ELSE OldOut(200, [old EXCEPT !.scenes = Remove(@, sceneKey(r.project, r))])

\* step 1 of POST /lyra/paste-save: the scenes table after the scene write
pasteSaveScene(r) ==
  LET key == sceneKey(r.project_name, r)
  IN  IF r.sceneWriteMode = "overwrite" THEN sceneWrite(old.scenes, key, r.content, FALSE)
      ELSE IF r.sceneWriteMode = "append" THEN sceneWrite(old.scenes, key, r.content, TRUE)
      ELSE sceneWriteChunks(old.scenes, key,
                            chunkText(r.content, maxChunkOf(r.maxChunk)), 1)

oldPasteSave(r, pids) ==
  IF r.content = <<>> \/ r.title = <<>> THEN {OldOut(400, old)}
  ELSE IF pids = {} THEN {OldOut(500, old)}
  ELSE IF r.saveToScenes /\ (r.chapterId = 0 \/ r.sceneId = 0) THEN {OldOut(400, old)}
  ELSE LET o1 == IF r.saveToScenes THEN [old EXCEPT !.scenes = pasteSaveScene(r)] ELSE old
           doc(pid) == upsertDocumentByTitle(o1, pid, r.title, r.content, r.docMode)
       IN  IF ~r.saveToDocuments THEN {OldOut(200, o1)}
           ELSE {OldOut(IF doc(pid).ok THEN 200 ELSE 500, doc(pid).old) : pid \in pids}

oldUpdate(r, pids) ==
  IF r.document_id = 0 \/ (r.title = <<>> /\ r.body_md = <<>>) THEN {OldOut(400, old)}
  ELSE IF pids = {} THEN {OldOut(500, old)}
  ELSE {LET hit == {i \in DOMAIN old.documents :
                      old.documents[i].project_id = pid
                        /\ old.documents[i].id = r.document_id}
        IN  IF hit = {} THEN OldOut(404, old)
            ELSE OldOut(200, oldRewrite(old, Min(hit), r.title, r.body_md)) : pid \in pids}

oldUpdateByTitle(r, pids) ==
  IF r.title = <<>> \/ r.body_md = <<>> THEN {OldOut(400, old)}
  ELSE IF pids = {} THEN {OldOut(500, old)}
  ELSE {LET i == latestByTitle(old.documents, pid, r.title)
        IN  IF i = 0 THEN OldOut(404, old)
            ELSE OldOut(200, oldRewrite(old, i, <<>>, r.body_md)) : pid \in pids}

oldWithin(o) ==
  /\ Cardinality(DOMAIN o.projects) <= MaxProjects
  /\ Len(o.documents) <= MaxDocs
  /\ \A k \in DOMAIN o.scenes : Len(o.scenes[k]) <= MaxSceneLen

\* one request: the route's middleware list, then one of the handler's outcomes
OldStep(op, protected, a, r, outs) ==
  /\ UNCHANGED <<memVars, dbReady, pgVars, stream>>
  /\ IF protected /\ ~requireAuth(a)
       THEN resp' = OldReply(op, 401, a, r) /\ old' = old
     ELSE \E out \in outs :
            /\ oldWithin(out.old)
            /\ resp' = OldReply(op, out.status, a, r)
            /\ old' = out.old

OldSetDefaultProject(a, r) == OldStep("POST /set-default-project", TRUE, a, r, {oldSetDefault(r)})
OldClearDefaultProject(a) == OldStep("POST /clear-default-project", TRUE, a, NoReq, {oldClearDefault})
OldPostProject(a, r) == OldStep("POST /project", TRUE, a, r, {oldProject(r)})
OldIngest(a, r) ==
  OldStep("POST /ingest", TRUE, a, r, oldIngest(r, oldResolve(r.project_id, r.project_name)))
OldScenesUpsert(a, r) == OldStep("POST /scenes/upsert", TRUE, a, r, {oldScenesUpsert(r)})
OldScenesPaste(a, r) == OldStep("POST /scenes/paste", FALSE, a, r, {oldScenesPaste(r)})
OldScenesDelete(a, r) == OldStep("DELETE /scenes/delete", TRUE, a, r, {oldScenesDelete(r)})
OldPasteSave(a, r) ==
  OldStep("POST /lyra/paste-save", TRUE, a, r,
          oldPasteSave(r, oldResolve(r.project_id, r.project_name)))
OldUpdate(a, r) ==
  OldStep("POST /update", TRUE, a, r, oldUpdate(r, oldResolve(r.project_id, r.project_name)))
OldUpdateByTitle(a, r) ==
  OldStep("POST /update-by-title", TRUE, a, r,
          oldUpdateByTitle(r, oldResolve(r.project_id, r.project_name)))

TokenK == <<"k">>
AuthIn == {NoAuth, [NoAuth EXCEPT !.bearer = TokenK], [NoAuth EXCEPT !.x = <<"w">>]}

ProjA == <<"a">>
TextAB == <<"a", "b">>
OldContentIn ==
  {TextAB, <<"a", "b", "c", "d">>, <<"a", "\n", "\n", "b">>, <<"a", "\n", " ", "\n", "b">>,
   <<" ">>}

SceneReq == [NoReq EXCEPT !.project = ProjA, !.project_name = ProjA, !.chapterId = 1,
                          !.sceneId = 1, !.content = TextAB]
DocReq == [NoReq EXCEPT !.project_name = ProjA, !.doc_type = "scene", !.title = TitleT,
                        !.body_md = TextAB]

InitOld ==
  /\ projects = <<>> /\ docs = <<>>
  /\ nextPid = 1 /\ nextDid = 1
  /\ trashP = <<>> /\ trashD = <<>> /\ preDelete = <<>>
  /\ DEFAULT_PROJECT_ID = 0
  /\ ALLOW_AUTOCONFIRM = FALSE
  /\ dbReady = TRUE
  /\ resp = NoReply
  /\ misc = <<>> /\ clock = 0 /\ job = <<>> /\ written = <<>>
  /\ stream = NoStream
  /\ \E token \in {<<>>, TokenK} : old = OldStart(token)

NextOld ==
  \/ \E a \in AuthIn, r \in {NoReq, [NoReq EXCEPT !.name = ProjA]} : OldPostProject(a, r)
  \/ \E a \in AuthIn, r \in {NoReq, [NoReq EXCEPT !.project_name = ProjA]} :
       OldSetDefaultProject(a, r)
  \/ \E a \in AuthIn : OldClearDefaultProject(a)
  \/ \E a \in AuthIn, r \in {DocReq, [DocReq EXCEPT !.project_name = <<>>]} : OldIngest(a, r)
  \/ \E a \in AuthIn, mode \in {"overwrite", "append"} :
       OldScenesUpsert(a, [SceneReq EXCEPT !.mode = mode])
  \/ \E a \in AuthIn, content \in OldContentIn, maxChunk \in {0, 1, 3} :
       OldScenesPaste(a, [SceneReq EXCEPT !.content = content, !.maxChunk = maxChunk])
  \/ \E a \in AuthIn : OldScenesDelete(a, SceneReq)
  \/ \E a \in AuthIn, docMode \in {"upsert", "create", "update"}, saveToScenes \in BOOLEAN,
        sceneWriteMode \in {"auto", "append"} :
       OldPasteSave(a, [SceneReq EXCEPT !.title = TitleT, !.docMode = docMode,
                                        !.saveToScenes = saveToScenes,
                                        !.sceneWriteMode = sceneWriteMode])
  \/ \E a \in AuthIn :
       OldUpdate(a, [DocReq EXCEPT !.document_id = 1, !.title = <<>>, !.body_md = <<"c">>])
  \/ \E a \in AuthIn : OldUpdateByTitle(a, [DocReq EXCEPT !.body_md = <<"d">>])

SpecOld == InitOld /\ [][NextOld]_vars

OldWriteOps ==
  {"POST /set-default-project", "POST /clear-default-project", "POST /project",
   "POST /ingest", "POST /scenes/upsert", "POST /scenes/paste", "DELETE /scenes/delete",
   "POST /lyra/paste-save", "POST /update", "POST /update-by-title"}

tokenValid(a) ==
  \E t \in {a.bearer, a.x, a.q} : t # <<>> /\ t = old.API_TOKEN

\* C11 (SpecOld): with API_TOKEN set, a request to a writing route that presents
\* no valid token is answered 401 and leaves the default project and every table
\* as they were.
C11_NoTokenNoWrite ==
  [][(/\ old.API_TOKEN # <<>>
      /\ resp'.srv = "old"
      /\ resp'.op \in OldWriteOps
      /\ ~tokenValid(resp'.arg.auth))
       => resp'.status = 401 /\ old' = old]_vars

\* C12 (SpecOld): when POST /scenes/paste answers 200 the stored content of the
\* scene equals the content that was sent, character for character.
C12_PasteLossless ==
  (resp.srv = "old" /\ resp.op = "POST /scenes/paste" /\ resp.status = 200)
    => LET r == resp.arg.req
       IN  /\ sceneKey(r.project, r) \in DOMAIN old.scenes
           /\ old.scenes[sceneKey(r.project, r)] = r.content

\* C14 (SpecOld): POST /lyra/paste-save that saves to documents: docMode 'create'
\* with a document of that title in the project, or 'update' with none, fails and
\* leaves scenes, documents and embeddings as they were; docMode 'upsert' answers
\* 200 and updates the existing document or inserts exactly one.
C14_DocModeAllOrNothing ==
  [][(/\ resp'.srv = "old"
      /\ resp'.op = "POST /lyra/paste-save"
      /\ resp'.status \notin {400, 401}
      /\ resp'.arg.req.saveToDocuments
      /\ oldResolve(resp'.arg.req.project_id, resp'.arg.req.project_name) # {})
       => LET r == resp'.arg.req
              n == Len(old.documents)
          IN  \A pid \in oldResolve(r.project_id, r.project_name) :
                LET i == latestByTitle(old.documents, pid, r.title)
                IN  /\ (r.docMode = "create" /\ i # 0) \/ (r.docMode = "update" /\ i = 0)
                         => resp'.status >= 400 /\ old' = old
                    /\ r.docMode = "upsert"
                         => /\ resp'.status = 200
                            /\ Len(old'.documents) = (IF i # 0 THEN n ELSE n + 1)
                            /\ old'.documents[Len(old'.documents)].body_md = r.content]_vars

----------------------------------------------------------------------------
(* Part G: project scope of the in-memory document routes *)

ScopedOps == {"GET /doc", "GET /doc/:id", "PATCH /doc/:id", "GET /lyra/read",
              "POST /lyra/paste-save", "POST /lyra/ingest"}

ScopedByIdOps == {"GET /doc/:id", "PATCH /doc/:id", "GET /lyra/read",
                  "POST /lyra/paste-save"}

\* the documents stored under another project than p
foreignDocs(p) == {d \in DOMAIN docs : docs[d].project_id # p}

\* C13 (SpecDoc): a request of GET /doc, GET /doc/:id, PATCH /doc/:id,
\* GET /lyra/read, POST /lyra/paste-save (update) or POST /lyra/ingest that
\* resolved project p never returns the id of a document of another project and
\* leaves every document of another project exactly as it was; when the id it
\* names belongs to another project the answer is 404, unless the
\* confirmation gate refused the request first (403 or 412).
C13_Step ==
  LET p == resp'.pid
      d == resp'.did
  IN  (resp'.srv = "mem" /\ resp'.op \in ScopedOps /\ p # 0)
        => /\ \A f \in foreignDocs(p) : f \in DOMAIN docs' /\ docs'[f] = docs[f]
           /\ \A r \in resp'.ret : r \in DOMAIN docs /\ docs[r].project_id = p
           /\ (resp'.op \in ScopedByIdOps /\ d \in foreignDocs(p))
                => /\ resp'.status \in {403, 404, 412}
                   /\ resp'.status # 404 => resp'.status = requireConfirmedProject(projects[p])

ProjectDocOps == ScopedOps \cup {"POST /doc"}

\* C15 (SpecDoc): a document route whose request names a project that does not
\* exist or is soft-deleted (project resolution fails) answers 404.
C15_MissingProject404 ==
  (resp.srv = "mem" /\ resp.op \in ProjectDocOps /\ resp.pid = 0) => resp.status = 404

----------------------------------------------------------------------------
(* Part G: documents of a project that is not confirmed *)

InitLock == InitMem /\ ALLOW_AUTOCONFIRM = FALSE

\* confirmed: false, require_confirmation: true in the body of PATCH /projects/:id
Unconfirm == <<0, 1, UNDEF>>

NextLock ==
  \/ PostProjects(<<"a">>, "book", 0) /\ idle
  \/ \E id \in PIDs : ConfirmById(id) /\ idle
  \/ \E id \in PIDs : PatchProject(id, NoName, "", UNDEF, Unconfirm[1], Unconfirm[2], Unconfirm[3]) /\ idle
  \/ \E id \in PIDs : PostDoc(ById(id), "scene", TitleT, BodyX, Arr(<<TagX>>), EmptyMeta) /\ idle
  \/ \E id \in PIDs, d \in DIDs :
       PatchDoc(ById(id), d, "", NoTitle, TRUE, BodyY, NoTag, NoMeta, FALSE) /\ idle
  \/ \E d \in DIDs, purge \in BOOLEAN : DeleteDoc(d, purge, NoTitle) /\ idle
  \/ \E d \in DIDs : RestoreDoc(d) /\ idle
  \/ \E id \in PIDs, d \in DIDs \cup {0} :
       PasteSave(ById(id), IF d = 0 THEN "create" ELSE "update", "overwrite", d, "scene",
                 TitleT, BodyY, Arr(<<TagX>>), EmptyMeta) /\ idle
  \/ \E id \in PIDs, item \in ItemIn : LyraIngest(ById(id), <<item>>) /\ idle

SpecLock == InitLock /\ [][NextLock]_vars

\* p.require_confirmation && !p.confirmed
notConfirmed(p) == p.require_confirmation /\ ~p.confirmed

\* the entries of a document map that belong to project p
docsUnder(ds, p) == Restrict(ds, {i \in DOMAIN ds : ds[i].project_id = p})

\* C16 (SpecLock): with ALLOW_AUTOCONFIRM off, no step creates, modifies,
\* soft-deletes, purges or restores a document of a project that has
\* require_confirmation = true and confirmed = false at that moment: the
\* documents and the trashed documents of such a project are the same after
\* the step as before, DELETE /doc/:id and POST /doc/:id/restore included.
C16_Step ==
  \A p \in DOMAIN projects :
    notConfirmed(projects[p])
      => /\ docsUnder(docs', p) = docsUnder(docs, p)
         /\ docsUnder(trashD', p) = docsUnder(trashD, p)

C16_UnconfirmedUntouched == [][C16_Step]_vars

----------------------------------------------------------------------------
(* Part H: db.pg.mjs createDoc, two calls under way at once.  The calls share  *)
(* the pool; each awaited INSERT of a part is one step, and the steps of the   *)
(* two calls come in any order.                                                *)

Callers == {1, 2}
ConcIdIn == {<<"d">>, <<"e">>}
ConcBodyIn == {<<"x", "y", "z">>, <<"z", "y", "x">>}

NextPgConc ==
  \/ \E c \in Callers, id \in ConcIdIn, body \in ConcBodyIn : CreateDocBegin(c, id, body)
  \/ \E c \in Callers : CreateDocPart(c)
  \/ ReadDocs

SpecPgConc == InitPg /\ [][NextPgConc]_vars

\* the body of part row idx + 1 of document id
partBody(id, idx) == misc[partId(id, idx)].body

\* the part rows of id, joined in part order
RECURSIVE joinParts(_, _)
joinParts(id, idx) ==
  IF partId(id, idx) \notin DOMAIN misc THEN <<>>
  ELSE partBody(id, idx) \o joinParts(id, idx + 1)

\* both calls have returned
bothDone == Len(written) = 2 /\ DOMAIN job = {}

\* C17 (SpecPgConc): createDoc takes no lock.  After two calls with oversized
\* bodies of the same number of parts have both returned: when the ids differ
\* every part row holds the part of its own body; when the ids are the same
\* every part row holds that part of one of the two bodies, whichever INSERT
\* came last on the row, and the last row holds the part of the call that
\* returned last.  Nothing ties the rows to one call, so the rows can come
\* from different calls (C17_Witness).
C17_InterleavedParts ==
  bothDone =>
    LET w1 == written[1]
        w2 == written[2]
        parts1 == splitText(w1.body)
        parts2 == splitText(w2.body)
    IN  IF w1.id # w2.id
          THEN /\ \A k \in DOMAIN parts1 : partBody(w1.id, k - 1) = parts1[k]
               /\ \A k \in DOMAIN parts2 : partBody(w2.id, k - 1) = parts2[k]
        ELSE /\ \A k \in DOMAIN parts2 : partBody(w2.id, k - 1) \in {parts1[k], parts2[k]}
             /\ partBody(w2.id, Len(parts2) - 1) = parts2[Len(parts2)]

\* two calls on the same id with different bodies have returned, the first part
\* row holds a part of one body and the last part row a part of the other, and
\* readDocs returned one document whose body is neither of the two
C17_Witness ==
  /\ bothDone
  /\ written[1].id = written[2].id
  /\ written[1].body # written[2].body
  /\ partBody(written[1].id, 0) = splitText(written[1].body)[1]
  /\ partBody(written[1].id, 1) = splitText(written[2].body)[2]
  /\ resp.srv = "db.pg" /\ resp.op = "readDocs"
  /\ Len(resp.ret) = 1
  /\ resp.ret[1].id = written[1].id
  /\ resp.ret[1].body = joinParts(written[1].id, 0)
  /\ resp.ret[1].body \notin {written[1].body, written[2].body}

----------------------------------------------------------------------------
(* Part I: server.mjs POST /projects, two requests under way at once.  The     *)
(* handler awaits the existence query and then the insert; each await is one   *)
(* step and the steps of the two requests come in any order.  job holds the    *)
(* requests that have passed the query and not yet inserted.                   *)

mjsConcKeep == <<docs, trashP, trashD, DEFAULT_PROJECT_ID, ALLOW_AUTOCONFIRM, nextDid,
                 preDelete, dbReady, misc, clock, written, stream, old>>

\* POST /projects up to the answer of its existence query
MjsPostProjectsQuery(c, name, kind, parent_id) ==
  LET op == "POST /projects"
  IN  /\ c \notin DOMAIN job
      /\ UNCHANGED <<projects, nextPid>> /\ UNCHANGED mjsConcKeep
      /\ IF ~dbReady
           THEN resp' = MjsReply(op, 500, 0, 0) /\ UNCHANGED job
         ELSE IF name = NoName
           THEN resp' = MjsReply(op, 400, 0, 0) /\ UNCHANGED job
         ELSE IF mjsLiveByName(name) # {}
           THEN /\ resp' = [MjsReply(op, 409, 0, 0) EXCEPT !.name = name]
                /\ UNCHANGED job
         ELSE /\ job' = Put(job, c, [name |-> name, kind |-> kind, parent_id |-> parent_id])
              /\ UNCHANGED resp

\* the insert and res.json(insert.rows[0])
MjsPostProjectsInsert(c) ==
  /\ c \in DOMAIN job
  /\ nextPid <= MaxProjects
  /\ projects' = Put(projects, nextPid, newProject(job[c].name, job[c].kind, job[c].parent_id))
  /\ nextPid' = nextPid + 1
  /\ job' = Remove(job, c)
  /\ resp' = [MjsReply("POST /projects", 200, nextPid, 0) EXCEPT !.name = job[c].name]
  /\ UNCHANGED mjsConcKeep

InitMjsConc == InitMjs /\ dbReady = TRUE

NextMjsConc ==
  \/ \E c \in Callers, name \in MjsNames : MjsPostProjectsQuery(c, name, "book", 0)
  \/ \E c \in Callers : MjsPostProjectsInsert(c)

SpecMjsConc == InitMjsConc /\ [][NextMjsConc]_vars

\* C18 (SpecMjsConc): with two POST /projects requests interleaved at their
\* awaits, the projects table never holds two non-deleted projects whose
\* names are equal up to case.
C18_OneProjectPerName ==
  \A i, j \in DOMAIN projects :
    (/\ ~projects[i].deleted_at /\ ~projects[j].deleted_at
     /\ toLowerCase(projects[i].name) = toLowerCase(projects[j].name))
      => i = j

----------------------------------------------------------------------------
(* Part J: db.pg.mjs, a second createDoc on the same id *)

\* C19 (SpecPg): after two createDoc calls on the same id, one after the other,
\* with bodies b1 and then b2 and nothing else written, readDocs returns
\* exactly one document for that id and its body is b2 (ids that contain
\* no "-p" themselves).
C19_LastWriteWins ==
  (/\ Len(written) = 2 /\ DOMAIN job = {}
   /\ written[1].id = written[2].id
   /\ baseIdOf(written[2].id) = written[2].id
   /\ resp.srv = "db.pg" /\ resp.op = "readDocs")
    => /\ Len(resp.ret) = 1
       /\ resp.ret[1].id = written[2].id
       /\ resp.ret[1].body = written[2].body

----------------------------------------------------------------------------
(* Part K: the create-then-append save, handleSave of POST /doc and            *)
(* POST /lyra/paste-save over createDoc / updateDoc / createOrUpdateDoc of     *)
(* db.pg.mjs (single-row variant).  misc is the table writing.misc and nextDid *)
(* numbers the calls of uuidv4().  One request is one step.                    *)

MaxUuid == 4
MaxSaves == 3

\* uuidv4(): the n-th fresh id
uuidv4(n) == <<"u", digitStr(n)>>

NoId == <<>>

\* req.body without a payload field
NoPayload == [present |-> FALSE, id |-> NoId, doc_type |-> "", title |-> NoTitle, body_md |-> <<>>]

\* if (body.payload) return body; return { ...body, payload: { ...body } }
normalizeRequest(body) ==
  IF body.payload.present THEN body
  ELSE [body EXCEPT !.payload = [present |-> TRUE, id |-> body.id, doc_type |-> body.doc_type,
                                 title |-> body.title, body_md |-> body.body_md]]

\* the error text, "" for null
validateRequest(reqBody) ==
  IF ~reqBody.payload.present THEN "Missing payload object"
  ELSE IF reqBody.payload.doc_type = "" THEN "Missing payload.doc_type"
  ELSE IF reqBody.payload.title = NoTitle THEN "Missing payload.title"
  ELSE ""

\* UPDATE writing.misc SET title = .., body = .. WHERE id = $n (no row: no change)
updateDoc(tbl, id, payload, sceneWriteMode) ==
  IF id \notin DOMAIN tbl THEN tbl
  ELSE [tbl EXCEPT ![id] =
          [@ EXCEPT !.title = IF payload.title # NoTitle THEN payload.title ELSE @,
                    !.body = IF payload.body_md = <<>> THEN @
                             ELSE IF sceneWriteMode = "append" THEN @ \o payload.body_md
                             ELSE payload.body_md]]

\* the loop "Remaining chunks = append" of handleSave
RECURSIVE appendChunks(_, _, _, _)
appendChunks(tbl, baseId, payload, parts) ==
  IF parts = <<>> THEN tbl
  ELSE appendChunks(updateDoc(tbl, baseId, [payload EXCEPT !.body_md = Head(parts)], "append"),
                    baseId, payload, Tail(parts))

SaveReply(op, status, id, body_md) ==
  [Reply(op, status, 0, 0) EXCEPT !.srv = "save", !.arg = [id |-> id, body_md |-> body_md]]

saveKeep == <<projects, docs, trashP, trashD, DEFAULT_PROJECT_ID, ALLOW_AUTOCONFIRM, nextPid,
              preDelete, dbReady, job, written, stream, old>>

handleSave(op, body) ==
  LET n == normalizeRequest(body)
      baseId == IF n.id = NoId THEN uuidv4(nextDid) ELSE n.id
      u1 == IF n.id = NoId THEN nextDid + 1 ELSE nextDid
      bodyText == n.payload.body_md
      parts == splitText(bodyText)
      \* createDoc: const id = payload.id || uuidv4()
      createId == IF n.payload.id = NoId THEN uuidv4(u1) ELSE n.payload.id
      u2 == IF n.payload.id = NoId THEN u1 + 1 ELSE u1
  IN  /\ UNCHANGED saveKeep
      /\ clock < MaxSaves
      /\ IF validateRequest(n) # ""
           THEN /\ resp' = SaveReply(op, 400, NoId, bodyText)
                /\ UNCHANGED <<misc, clock, nextDid>>
         ELSE IF Len(bodyText) > SplitLen
           THEN /\ u2 <= MaxUuid + 1
                /\ misc' = appendChunks(
                             upsert(misc, createId, n.payload.title, parts[1], clock + 1),
                             baseId, n.payload, Tail(parts))
                /\ clock' = clock + 1
                /\ nextDid' = u2
                /\ resp' = SaveReply(op, 200, baseId, bodyText)
         ELSE IF n.docMode = "update"
           THEN /\ u1 <= MaxUuid + 1
                /\ misc' = updateDoc(misc, baseId, n.payload, n.sceneWriteMode)
                /\ nextDid' = u1
                /\ resp' = SaveReply(op, 200, baseId, bodyText)
                /\ UNCHANGED clock
         ELSE /\ u2 <= MaxUuid + 1
              /\ misc' = upsert(misc, createId, n.payload.title, bodyText, clock + 1)
              /\ clock' = clock + 1
              /\ nextDid' = u2
              /\ resp' = SaveReply(op, 200, baseId, bodyText)

SaveIdIn == {NoId, <<"d">>}
SaveBodyIn == {<<"x">>, <<"x", "y", "z">>, <<"y", "z", "x", "y", "z">>}

\* the fields sent at the top level of the body
SaveFlat ==
  {[id |-> id, docMode |-> m, sceneWriteMode |-> "", doc_type |-> t, title |-> TitleT,
    body_md |-> b, payload |-> NoPayload] :
     id \in SaveIdIn, m \in {"", "update"}, t \in {"", "scene"}, b \in SaveBodyIn}

\* the fields sent inside payload, the id at the top level, in payload, or both
SaveWrapped ==
  {[id |-> id, docMode |-> "", sceneWriteMode |-> "", doc_type |-> "", title |-> NoTitle,
    body_md |-> <<>>,
    payload |-> [present |-> TRUE, id |-> pid, doc_type |-> "scene", title |-> TitleT,
                 body_md |-> b]] :
     id \in SaveIdIn, pid \in SaveIdIn, b \in SaveBodyIn}

NextSave ==
  \/ \E body \in SaveFlat \cup SaveWrapped : handleSave("POST /doc", body)
  \/ \E body \in SaveFlat \cup SaveWrapped : handleSave("POST /lyra/paste-save", body)

SpecSave == InitPg /\ [][NextSave]_vars

\* C20 (SpecSave): when a save request whose body_md is longer than the split
\* length is answered 200, the table holds a document under the id given in
\* the response and its body is the whole body_md; with or without an id in
\* the request, flat or wrapped in payload.
C20_OversizedSavedWhole ==
  (resp.srv = "save" /\ resp.status = 200 /\ Len(resp.arg.body_md) > SplitLen)
    => /\ resp.arg.id \in DOMAIN misc
       /\ misc[resp.arg.id].body = resp.arg.body_md

----------------------------------------------------------------------------
(* Part L: purge and restore of a project (server.2.0.0.js; the handlers of    *)
(* server.js are the same statements)                                          *)

\* the projects that were created and are in neither db.projects nor db.trash.projects
purgedProjects(ps, tp, np) == {p \in 1..(np - 1) : p \notin DOMAIN ps /\ p \notin DOMAIN tp}

\* the ids of a document map that belong to project p
docIdsUnder(ds, p) == {i \in DOMAIN ds : ds[i].project_id = p}

\* C21 (SpecDoc): when DELETE /projects/:id?cascade=true&purge=true answers
\* 200, the project is in neither db.projects nor db.trash.projects and no
\* document with that project_id is left in db.docs or db.trash.docs; and
\* afterwards no read returns, and no POST /doc/:id/restore brings back, a
\* document of a purged project.
C21_Step ==
  LET p == resp'.pid
      d == resp'.did
  IN  /\ (/\ resp'.srv = "mem" /\ resp'.op = "DELETE /projects/:id" /\ resp'.status = 200
          /\ resp'.cascade /\ resp'.purge)
           => /\ p \notin DOMAIN projects'
              /\ p \notin DOMAIN trashP'
              /\ docIdsUnder(docs', p) = {}
              /\ docIdsUnder(trashD', p) = {}
      /\ (resp'.srv = "mem" /\ resp'.op \in ReadOps /\ resp'.status = 200)
           => \A r \in resp'.ret :
                docs[r].project_id \notin purgedProjects(projects, trashP, nextPid)
      /\ (resp'.srv = "mem" /\ resp'.op = "POST /doc/:id/restore" /\ resp'.status = 200)
           => docs'[d].project_id \notin purgedProjects(projects', trashP', nextPid')

C21_PurgeIsFinal == [][C21_Step]_vars

\* a map without the entry of key k
butFor(f, k) == Restrict(f, DOMAIN f \ {k})

\* C22 (SpecDoc): POST /projects/:id/restore changes nothing but
\* db.projects[id] and db.trash.projects[id]: db.docs, db.trash.docs and every
\* other project stay as they were, so a document that was soft-deleted by
\* the cascade is still deleted afterwards; a deleted document becomes live
\* again only by POST /doc/:id/restore on its own id.
C22_Step ==
  LET p == resp'.pid
  IN  /\ (resp'.srv = "mem" /\ resp'.op = "POST /projects/:id/restore")
           => /\ docs' = docs
              /\ trashD' = trashD
              /\ butFor(projects', p) = butFor(projects, p)
              /\ butFor(trashP', p) = butFor(trashP, p)
              /\ UNCHANGED <<DEFAULT_PROJECT_ID, ALLOW_AUTOCONFIRM, nextPid, nextDid>>
              /\ resp'.status = 200
                   => /\ p \in DOMAIN trashP
                      /\ projects'[p] = restoredFrom(trashP[p])
                      /\ p \notin DOMAIN trashP'
      /\ \A d \in DOMAIN docs \cap DOMAIN docs' :
           (docs[d].deleted_at /\ ~docs'[d].deleted_at)
             => (resp'.op = "POST /doc/:id/restore" /\ resp'.status = 200 /\ resp'.did = d)

C22_ProjectRestoreFrame == [][C22_Step]_vars

\* a project was restored from the trash while a document of it, soft-deleted
\* by the cascade, is still deleted and still in db.trash.docs
C22_Witness ==
  /\ resp.srv = "mem"
  /\ resp.op = "POST /projects/:id/restore"
  /\ resp.status = 200
  /\ resp.pid \in DOMAIN projects
  /\ ~projects[resp.pid].deleted_at
  /\ \E d \in DOMAIN docs \cap DOMAIN trashD :
       /\ docs[d].project_id = resp.pid
       /\ docs[d].deleted_at
       /\ docs[d].deleted_by = "cascade"

----------------------------------------------------------------------------
(* Part M: the middleware route POST /mw/save-scene (mw/middleware.mjs) in     *)
(* front of server.mjs.  The handler reads by title, then by structure, then   *)
(* posts to /lyra/paste-save; one request is one step.  A structure field that *)
(* is not sent is the empty sequence.                                          *)

MaxScenes == 2
MaxSceneBody == 4

NoVal == <<>>
ActI == <<"I">>

RECURSIVE joinWith(_, _)
joinWith(parts, sep) ==
  IF parts = <<>> THEN <<>>
  ELSE IF Len(parts) = 1 THEN parts[1]
  ELSE parts[1] \o sep \o joinWith(Tail(parts), sep)

makeTocPath(s) ==
  joinWith((IF s.act # NoVal THEN <<<<"A", "c", "t", " ">> \o s.act>> ELSE <<>>)
             \o (IF s.section # NoVal
                   THEN <<<<"S", "e", "c", "t", "i", "o", "n", " ">> \o s.section>> ELSE <<>>)
             \o (IF s.chapter # NoVal
                   THEN <<<<"C", "h", "a", "p", "t", "e", "r", " ">> \o s.chapter>> ELSE <<>>)
             \o (IF s.scene # NoVal
                   THEN <<<<"S", "c", "e", "n", "e", " ">> \o s.scene>> ELSE <<>>),
           <<" ", ">", " ">>)

\* the query of lyraReadByTitle: title=<title>&ci=true
titleQuery(title) == [NoQuery EXCEPT !.title = title, !.ci = TRUE]

\* the query of lyraReadByStructure: doc_type=scene and a meta.<field> pair for
\* every field of the structure that is set
structureQuery(s) ==
  [NoQuery EXCEPT
     !.doc_type = "scene",
     !.meta = (IF s.act # NoVal THEN <<<<"act", s.act>>>> ELSE <<>>)
                \o (IF s.section # NoVal THEN <<<<"section", s.section>>>> ELSE <<>>)
                \o (IF s.chapter # NoVal THEN <<<<"chapter", s.chapter>>>> ELSE <<>>)
                \o (IF s.scene # NoVal THEN <<<<"scene", s.scene>>>> ELSE <<>>)]

\* payload.meta of save-scene (location, start and end are not sent)
sceneMeta(s) == [isObject |-> TRUE, val |-> [structure |-> s, toc_path |-> makeTocPath(s)]]

\* Array.from(new Set(["scene", `Act ${structure.act}`, ...tags]))
sceneTags(s, tags) ==
  Arr(unique(<<<<"s", "c", "e", "n", "e">>>>
               \o (IF s.act # NoVal THEN <<<<"A", "c", "t", " ">> \o s.act>> ELSE <<>>)
               \o tags))

\* body_md: `\\n${notes_append}`, the two characters backslash and n in front
notesBody(notes_append) ==
  IF notes_append # <<>> THEN <<"\\", "n">> \o notes_append ELSE <<>>

MwReply(status, pid, did, project_name, title, structure, mode) ==
  [Reply("POST /mw/save-scene", status, pid, did) EXCEPT
     !.srv = "mw",
     !.arg = [project_name |-> project_name, title |-> title, structure |-> structure,
              mode |-> mode]]

MwSaveScene(project_name, title, structure, notes_append) ==
  LET hits == mjsLiveByName(project_name)
      R(st, p, d, mode) == MwReply(st, p, d, project_name, title, structure, mode)
      body_md == notesBody(notes_append)
  IN  \* saveSceneSchema.parse; an upstream 500, 404 or 412 is thrown and answered 400
      IF project_name = NoName \/ title = NoTitle \/ structure.act = NoVal
           \/ ~dbReady \/ hits = {}
        THEN resp' = R(400, 0, 0, "") /\ mjsSame
      ELSE \E p \in hits :
             LET byTitle == mjsReadFound(p, titleQuery(title))
                 byStructure == mjsReadFound(p, structureQuery(structure))
                 found == IF Len(byTitle) > 0 THEN byTitle ELSE byStructure
             IN  \* json.doc || json.docs[0]: the newest row; rows carry no time here
                 \E existing \in IF Len(found) = 0 THEN {0} ELSE idsOf(found) :
                   IF mjsNotConfirmed(projects[p])
                     THEN resp' = R(400, p, 0, "") /\ mjsSame
                   ELSE IF existing # 0
                     THEN LET nextBody == IF notes_append # <<>>
                                            THEN docs[existing].body_md \o <<"\n">> \o body_md
                                          ELSE body_md
                          IN  /\ Len(nextBody) <= MaxSceneBody
                              /\ docs' = [docs EXCEPT ![existing] =
                                            [@ EXCEPT !.doc_type = "scene", !.title = title,
                                                      !.body_md = nextBody,
                                                      !.tags = sceneTags(structure, <<>>),
                                                      !.meta = sceneMeta(structure)]]
                              /\ resp' = R(200, p, existing, "update")
                              /\ UNCHANGED <<projects, nextPid, nextDid>> /\ UNCHANGED mjsKeep
                   ELSE /\ nextDid <= MaxScenes
                        /\ docs' = Put(docs, nextDid,
                                       newDoc(nextDid, p, "scene", title, body_md,
                                              sceneTags(structure, <<>>), sceneMeta(structure)))
                        /\ nextDid' = nextDid + 1
                        \* id: result.document_id || existing?.id || null
                        /\ resp' = R(200, p, 0, "create")
                        /\ UNCHANGED <<projects, nextPid>> /\ UNCHANGED mjsKeep

MwTitleIn == {<<"T">>, <<"t">>, <<"U">>}
MwStructureIn ==
  {[act |-> a, section |-> NoVal, chapter |-> NoVal, scene |-> sc] :
     a \in {NoVal, ActI}, sc \in {<<"1">>, <<"2">>}}

\* a scene posted to POST /doc directly, with act and scene as top-level meta keys
FlatMeta == [isObject |-> TRUE, val |-> [act |-> ActI, scene |-> <<"1">>]]

NextMw ==
  \/ MjsPostProjects(<<"a">>, "book", 0)
  \/ \E id \in PIDs : MjsConfirm(id, NoName, <<>>)
  \/ MjsPostDoc(<<"a">>, "scene", <<"F">>, BodyX, Arr(<<>>), FlatMeta)
  \/ \E name \in {NoName, <<"a">>}, title \in MwTitleIn, s \in MwStructureIn,
        notes \in {<<>>, <<"n">>} :
       MwSaveScene(name, title, s, notes)

InitMw == InitMjs /\ projects = <<>> /\ dbReady = TRUE /\ ALLOW_AUTOCONFIRM = FALSE

SpecMw == InitMw /\ [][NextMw]_vars

\* the live scene documents of project p
scenesOf(ds, p) ==
  {i \in DOMAIN ds : ds[i].project_id = p /\ ~ds[i].deleted_at /\ ds[i].doc_type = "scene"}

\* the scenes of p that save-scene wrote with structure s
savedWithStructure(p, s) ==
  {i \in scenesOf(docs, p) :
     "structure" \in DOMAIN docs[i].meta.val /\ docs[i].meta.val.structure = s}

\* C23 (SpecMw): when POST /mw/save-scene answers 200 and no live document of
\* the project has the title sent (compared as ci=true does) while a scene
\* saved through save-scene has the same act/section/chapter/scene, the call
\* is an update of that scene: mode 'update', the id of that scene, and the
\* number of scene documents of the project is the same after the call.
C23_Step ==
  LET a == resp'.arg
      p == resp'.pid
  IN  (/\ resp'.srv = "mw" /\ resp'.status = 200
       /\ Len(mjsReadFound(p, titleQuery(a.title))) = 0
       /\ savedWithStructure(p, a.structure) # {})
        => /\ a.mode = "update"
           /\ resp'.did \in savedWithStructure(p, a.structure)
           /\ Cardinality(scenesOf(docs', p)) = Cardinality(scenesOf(docs, p))

C23_UpdateByStructure == [][C23_Step]_vars

====
